---- MODULE Spec2Model ----
(***************************************************************************)
(* A model of the MQTT client bridge of src/src: the EventQueue            *)
(* (event_queue.h) and the MQTTClient session (mqtt_client.cpp): its work  *)
(* queue, run loop, health check, shutdown and engine callbacks.           *)
(*                                                                         *)
(* The network engine (the MQTTAsync_* library) is the environment: its    *)
(* return codes and the moments at which it invokes the registered         *)
(* callbacks are nondeterministic.                                         *)
(*                                                                         *)
(* The specifications share the variables:                                 *)
(*   Spec    the session (run thread, requesting threads, engine threads,  *)
(*           the detached forced-disconnect thread). The session only ever *)
(*           pushes onto the event queue and never reads it, so Spec keeps *)
(*           the history of its pushes, as a bag, in `events`; the queue's *)
(*           order and its consumers are the subject of SpecEQ. The clock  *)
(*           is not followed: the outcome of every comparison of elapsed   *)
(*           time is chosen nondeterministically.                          *)
(*   FairSpec    Spec with the fairness of the run thread.                 *)
(*   SpecEQ  the EventQueue alone, with its mutex and condition variable   *)
(*           explicit, several producers and consumers.                    *)
(*   SpecEQAdmin SpecEQ with size(), empty() and clear() called as well.    *)
(*   SpecSetup   run() with connect_to_broker step by step, for every      *)
(*           configuration, platform and state of the file system.         *)
(*   SpecHealth  the run loop and the health check with the clock explicit.*)
(*   SpecB64 one call of base64_encode.                                    *)
(*   SpecLocks   the three mutexes (work queue, event queue, activity) and *)
(*           the order in which every function locks and unlocks them,     *)
(*           thread by thread; data is not followed.                       *)
(***************************************************************************)
EXTENDS Naturals, Sequences, FiniteSets, Bags

\* ------------------------------------------------------------------ bounds
\* Work items requested over the session's life.
MaxReq == 2
\* Successful (re)connects reported by the engine.
MaxConnects == 2
\* Failed connect attempts reported by the engine.
MaxConnFail == 1
\* Explicit stop() calls (the destructor's call comes on top).
MaxStopCalls == 2
\* Pushes per producer thread in SpecEQ.
MaxPush == 2

NULL == "null"

\* process_requests' `item` outside the loop body.
NoItem == [type |-> NULL, topic |-> 0, id |-> 0, enq_conn |-> FALSE]

\* Threads of SpecEQ.
Producers == {"p1", "p2"}
Consumers == {"c1", "c2"}

\* Threads of SpecLocks: run(), an engine thread invoking callbacks, two
\* consumers, and the detached thread of check_connection_health.
LockThreads == {"run", "engine", "consumer1", "consumer2", "detached"}

VARIABLES
    \* ---- MQTTClient members
    client_,        \* the engine handle: NULL or "valid"
    connected_,     \* std::atomic<bool>
    should_stop_,   \* std::atomic<bool>
    work_mutex_,    \* "free" or the owning thread (in Spec, requests are
                    \* one critical section and the owner is "run")
    work_queue_,    \* std::queue<WorkItem>
    \* ---- the run thread
    run_pc,         \* where run() is
    item,           \* process_requests' local `item`
    sleep_detected, \* check_connection_health's local
    is_connected,   \* check_connection_health's local
    \* ---- the engine (environment)
    link,           \* "none", "connecting", "up", "lost", "closed", "destroyed"
    pending,        \* requests the engine accepted and has not completed
    forced,         \* detached forced-disconnect threads that have not yet run
    object_,        \* "live" or "destructed"
    \* ---- history (ghost) variables
    enq,            \* number of work items enqueued so far
    cold,           \* ids of queued items enqueued while connected_ was false
                    \* and for which it has not been set to true since
    dispatched,     \* the work items handed to the engine, in order
    finished,       \* ids of requests the engine is done with
    events,         \* the events the session has pushed so far (a bag)
    connect_calls,  \* calls of MQTTAsync_connect
    shutdown_count, \* executions of the shutdown sequence
    stop_calls,     \* calls of stop()
    use_after_destroy, \* an engine call was made on a destroyed handle
    \* ---- EventQueue members
    queue_,         \* std::queue<MQTTEvent>
    mutex_,         \* "free" or the owning thread            (SpecEQ)
    waiters,        \* threads blocked in cv_.wait_for         (SpecEQ)
    eq_pc,          \* per thread of SpecEQ: its position
    timed_out,      \* per consumer: its wait_for has timed out
    \* ---- history (ghost) variables of SpecEQ
    pushed,         \* events in the order their pushes held the lock
    popped,         \* events in the order pop/try_pop returned them
    nopush,         \* per producer: pushes made
    \* ---- configuration, platform and file system                (SpecSetup)
    config_,        \* MQTTConfig
    platform,       \* the build: "windows", "apple", "linux" or "other"
    sys,            \* what the platform will answer: the extracted PEM text
                    \* and whether the temporary file can be created
    files,          \* paths that exist in the file system
    temp_cert_file_, \* std::string member: "" or the temporary file's path
    \* ---- history (ghost) variables of SpecSetup
    server_uri,     \* the URI given to MQTTAsync_create
    probes,         \* the sources setup_ssl_cert examined, in order
    resolved,       \* what setup_ssl_cert returned (NULL: not called or threw)
    trust_store,    \* ssl_opts.trustStore as MQTTAsync_connect reads it
    \* ---- the steady clock and the time points kept                (SpecHealth)
    now,            \* std::chrono::steady_clock::now(), in ticks
    last_activity_, \* member, guarded by activity_mutex_
    last_check_time_, \* member, guarded by activity_mutex_
    last_health_check, \* run()'s local
    \* ---- base64_encode                                           (SpecB64)
    b64,            \* a call of base64_encode: its arguments, locals and position
    \* ---- the mutexes, thread by thread                            (SpecLocks)
    activity_mutex_, \* std::mutex member: "free" or the owning thread
    todo,           \* per thread of SpecLocks: the steps it has yet to take
                    \* in the function it is executing
    \* ---- history (ghost) variables of SpecEQAdmin
    cleared,        \* the events clear() discarded, in order
    ret             \* per consumer: the function (size or empty) that
                    \* returned last, and its value

sessVars == <<client_, connected_, should_stop_, work_mutex_, work_queue_,
              run_pc, item, sleep_detected, is_connected, link, pending,
              forced, object_, enq, cold, dispatched, finished, events,
              connect_calls, shutdown_count, stop_calls, use_after_destroy>>

eqVars == <<queue_, mutex_, waiters, eq_pc, timed_out, pushed, popped, nopush>>

setupVars == <<config_, platform, sys, files, temp_cert_file_,
               server_uri, probes, resolved, trust_store>>

clockVars == <<now, last_activity_, last_check_time_, last_health_check>>

lockVars == <<activity_mutex_, todo>>

adminVars == <<cleared, ret>>

vars == <<sessVars, eqVars, setupVars, clockVars, b64, lockVars, adminVars>>
\* ------------------------------------------------------------ std::queue
\* Mutant: push at the front.
q_push_Front(q, x) == <<x>> \o q

\* std::queue::push
q_push(q, x) == Append(q, x)

\* std::queue::front
q_front(q) == Head(q)

\* Mutant: pop drops the newest element.
q_pop_Back(q) == SubSeq(q, 1, Len(q) - 1)

\* std::queue::pop
q_pop(q) == Tail(q)

\* std::queue::empty
q_empty(q) == q = <<>>

\* ------------------------------------------------------------ events
\* MQTTEvent: its type and, as history, the request it reports on (0: none).
MQTTEvent(t, r) == [type |-> t, req |-> r]

\* event_queue_.push(e) as the session's history records it.
Pushed(b, e) == b (+) SetToBag({e})

\* Number of events of type t pushed so far.
CountEv(t) ==
    LET S == {e \in BagToSet(events) : e.type = t}
    IN  BagCardinality([e \in S |-> events[e]])

\* Number of connect successes so far.
Epoch == CountEv("CONNECTED")


\* ------------------------------------------------------------ configuration
\* Character strings that are concatenated are sequences of characters.
Str_wss == <<"w", "s", "s">>
Str_ws == <<"w", "s">>
Str_ssl == <<"s", "s", "l">>
Str_tcp == <<"t", "c", "p">>
Str_mqtt_path == <<"/", "m", "q", "t", "t">>
Str_ws_path == <<"/", "w", "s">>
Str_host == <<"b", "r", "o", "k", "e", "r", ".", "e", "x", "a", "m", "p", "l", "e">>
Str_colon_slashes == <<":", "/", "/">>
Str_colon == <<":">>

\* MQTTConfig::get_protocol_string
get_protocol_string(cfg) ==
    IF cfg.use_websockets
    THEN (IF cfg.use_ssl THEN Str_wss ELSE Str_ws)
    ELSE (IF cfg.use_ssl THEN Str_ssl ELSE Str_tcp)

\* MQTTConfig::get_default_port
get_default_port(cfg) ==
    IF cfg.use_websockets
    THEN (IF cfg.use_ssl THEN 8883 ELSE 8080)
    ELSE (IF cfg.use_ssl THEN 8883 ELSE 1883)

\* std::to_string(int), for n >= 0: the decimal digits.
RECURSIVE to_string(_)
to_string(n) ==
    LET d == <<"0", "1", "2", "3", "4", "5", "6", "7", "8", "9">>[(n % 10) + 1]
    IN  IF n < 10 THEN <<d>> ELSE to_string(n \div 10) \o <<d>>

\* The caller-supplied certificate file and the temporary file
\* temp_directory_path() / ("mqtt_certs_" + client_id + ".pem").
UserCertPath == "/home/user/ca.pem"
TempCertPath == "/tmp/mqtt_certs_client.pem"

\* The configurations a caller passes: the transport and TLS switches, the
\* port (0, for which main.cpp takes the default for the switches, or 1234),
\* the WebSocket path, with or without a certificate file.
Configs ==
    {[broker_host |-> Str_host, broker_port |-> port, websocket_path |-> path,
      use_websockets |-> ws, use_ssl |-> ssl, cert_file_path |-> cert,
      keep_alive_seconds |-> 20, connection_check_interval_ms |-> 1000] :
        ws \in BOOLEAN, ssl \in BOOLEAN, port \in {0, 1234},
        path \in {Str_mqtt_path, Str_ws_path}, cert \in {NULL, UserCertPath}}

\* main.cpp: `if (broker_port == 0) broker_port = config.get_default_port();`
WithDefaultPort(cfg) ==
    [cfg EXCEPT !.broker_port = IF @ = 0 THEN get_default_port(cfg) ELSE @]

\* MQTTConfig's member initializers, with a broker host.
DefaultConfig ==
    [broker_host |-> Str_host, broker_port |-> 8883,
     websocket_path |-> Str_mqtt_path, use_websockets |-> TRUE,
     use_ssl |-> TRUE, cert_file_path |-> NULL,
     keep_alive_seconds |-> 20, connection_check_interval_ms |-> 1000]

\* ------------------------------------------------------------ the session
\* No call of base64_encode is under way.
B64Idle ==
    [pc |-> "idle", input |-> <<>>, data |-> <<>>, length |-> 0, i |-> 0,
     char_array_3 |-> <<0, 0, 0>>, ret |-> <<>>]

\* The state after MQTTClient's construction.
InitSession ==
    /\ client_ = NULL
    /\ connected_ = FALSE
    /\ should_stop_ = FALSE
    /\ work_mutex_ = "free"
    /\ work_queue_ = <<>>
    /\ run_pc = "start"
    /\ item = NoItem
    /\ sleep_detected = FALSE
    /\ is_connected = FALSE
    /\ link = "none"
    /\ pending = {}
    /\ forced = 0
    /\ object_ = "live"
    /\ enq = 0
    /\ cold = {}
    /\ dispatched = <<>>
    /\ finished = {}
    /\ events = EmptyBag
    /\ connect_calls = 0
    /\ shutdown_count = 0
    /\ stop_calls = 0
    /\ use_after_destroy = FALSE
    /\ temp_cert_file_ = ""
    /\ server_uri = <<>>
    /\ probes = <<>>
    /\ resolved = NULL
    /\ trust_store = NULL
    /\ now = 0
    /\ last_activity_ = 0
    /\ last_check_time_ = 0
    /\ last_health_check = 0
    /\ activity_mutex_ = "free"
    /\ todo = [t \in LockThreads |-> <<>>]

\* The state after EventQueue's construction.
InitQueue ==
    /\ queue_ = <<>>
    /\ mutex_ = "free"
    /\ waiters = {}
    /\ eq_pc = [t \in Producers \cup Consumers |-> "idle"]
    /\ timed_out = [c \in Consumers |-> FALSE]
    /\ pushed = <<>>
    /\ popped = <<>>
    /\ nopush = [p \in Producers |-> 0]
    /\ cleared = <<>>
    /\ ret = [c \in Consumers |-> [fn |-> NULL, val |-> 0]]

\* The state after construction, for a session with the default
\* configuration on a Linux host that has its certificate bundle.
Init ==
    /\ InitSession
    /\ b64 = B64Idle
    /\ InitQueue
    /\ config_ = DefaultConfig
    /\ platform = "linux"
    /\ sys = [pem_certs |-> "", can_create |-> TRUE]
    /\ files = {"/etc/ssl/certs/ca-certificates.crt"}

\* The engine invokes callbacks only between a connect it accepted and the
\* destruction of the handle.
EngineAlive == link \in {"connecting", "up", "lost", "closed"}

\* ---- requests (any thread)

\* The body shared by request_subscribe / request_publish / request_unsubscribe:
\* under work_mutex_, build the item and work_queue_.push(item). The k-th
\* request names topic k. The item's id and the connection state at enqueue
\* time are history fields.
Enqueue(type) ==
    /\ object_ = "live"
    /\ work_mutex_ = "free"
    /\ enq < MaxReq
    /\ work_queue_' = q_push(work_queue_,
                             [type |-> type, topic |-> enq + 1, id |-> enq + 1,
                              enq_conn |-> connected_])
    /\ enq' = enq + 1
    /\ cold' = IF connected_ THEN cold ELSE cold \cup {enq + 1}
    /\ UNCHANGED <<client_, connected_, should_stop_, work_mutex_, run_pc, item,
                   sleep_detected, is_connected, link, pending, forced, object_,
                   dispatched, finished, connect_calls,
                   shutdown_count, stop_calls, use_after_destroy, events, eqVars, setupVars, clockVars, b64, lockVars, adminVars>>

request_subscribe == Enqueue("SUBSCRIBE")

request_publish == Enqueue("PUBLISH")

request_unsubscribe == Enqueue("UNSUBSCRIBE")

\* MQTTClient::stop: should_stop_.store(true).
stop ==
    /\ object_ = "live"
    /\ stop_calls < MaxStopCalls
    /\ should_stop_' = TRUE
    /\ stop_calls' = stop_calls + 1
    /\ UNCHANGED <<client_, connected_, work_mutex_, work_queue_, run_pc, item,
                   sleep_detected, is_connected, link, pending, forced, object_,
                   enq, cold, dispatched, finished, connect_calls,
                   shutdown_count, use_after_destroy, events, eqVars, setupVars, clockVars, b64, lockVars, adminVars>>

\* MQTTClient::~MQTTClient: stop(). The owner destroys the object after run()
\* has returned (main.cpp joins the thread first).
Destructor ==
    /\ object_ = "live"
    /\ run_pc \in {"failed", "done"}
    /\ should_stop_' = TRUE
    /\ stop_calls' = stop_calls + 1
    /\ object_' = "destructed"
    /\ UNCHANGED <<client_, connected_, work_mutex_, work_queue_, run_pc, item,
                   sleep_detected, is_connected, link, pending, forced,
                   enq, cold, dispatched, finished, connect_calls,
                   shutdown_count, use_after_destroy, events, eqVars, setupVars, clockVars, b64, lockVars, adminVars>>

\* ---- run(): setup

\* The ways connect_to_broker ends: MQTTAsync_create fails, MQTTAsync_setCallbacks
\* fails, setup_ssl_cert throws, MQTTAsync_connect is rejected, or all succeed.
ConnectOutcome == {"create_failed", "callbacks_failed", "ssl_failed",
                   "connect_rejected", "ok"}

\* The Error event connect_to_broker pushes for an outcome (NULL: none).
SetupErrorEvent(o) ==
    IF o \in {"create_failed", "callbacks_failed", "connect_rejected"}
    THEN "ERROR" ELSE NULL

\* Whether connect_to_broker reaches the call of MQTTAsync_connect.
ReachesConnect(o) == o \in {"connect_rejected", "ok"}

\* run() up to its loop: connect_to_broker, and the early return when it fails.
\* On every failure path the handle, if it was created, is destroyed again.
connect_to_broker ==
    /\ run_pc = "start"
    /\ object_ = "live"
    /\ \E o \in ConnectOutcome :
        /\ connect_calls' = IF ReachesConnect(o) THEN connect_calls + 1
                            ELSE connect_calls
        /\ events' = IF SetupErrorEvent(o) # NULL
                      THEN Pushed(events, MQTTEvent(SetupErrorEvent(o), 0))
                      ELSE events
        /\ IF o = "ok"
           THEN /\ client_' = "valid" /\ link' = "connecting" /\ run_pc' = "loop"
                /\ last_health_check' = now
           ELSE /\ client_' = NULL /\ link' = "none" /\ run_pc' = "failed"
                /\ UNCHANGED last_health_check
    /\ UNCHANGED <<connected_, should_stop_, work_mutex_, work_queue_, item,
                   sleep_detected, is_connected, pending, forced, object_, enq, cold,
                   dispatched, finished, shutdown_count, stop_calls,
                   use_after_destroy, eqVars, setupVars,
                   now, last_activity_, last_check_time_, b64, lockVars, adminVars>>

\* ---- run(): the loop

\* Mutant: the loop never reads the stop flag.
LoopCond_Always(s) == TRUE

\* while (!should_stop_.load())
LoopCond(s) == ~s

run_loop ==
    /\ run_pc = "loop"
    /\ run_pc' = IF LoopCond(should_stop_) THEN "pr_lock" ELSE "disconnect"
    /\ UNCHANGED <<client_, connected_, should_stop_, work_mutex_, work_queue_,
                   item, sleep_detected, is_connected, link, pending, forced,
                   object_, enq, cold, dispatched, finished, connect_calls,
                   shutdown_count, stop_calls, use_after_destroy, events, eqVars, setupVars, clockVars, b64, lockVars, adminVars>>

\* process_requests: std::lock_guard<std::mutex> lock(work_mutex_)
process_requests_lock ==
    /\ run_pc = "pr_lock"
    /\ work_mutex_ = "free"
    /\ work_mutex_' = "run"
    /\ run_pc' = "pr_check"
    /\ UNCHANGED <<client_, connected_, should_stop_, work_queue_,
                   item, sleep_detected, is_connected, link, pending, forced,
                   object_, enq, cold, dispatched, finished, connect_calls,
                   shutdown_count, stop_calls, use_after_destroy, events, eqVars, setupVars, clockVars, b64, lockVars, adminVars>>
\* Mutant: the loop test without the connected flag.
DrainCond_NoFlag(q, c) == ~q_empty(q)

\* Mutant: the loop stops one item early.
DrainCond_LeavesLast(q, c) == Len(q) > 1 /\ c

\* while (!work_queue_.empty() && connected_.load())
DrainCond(q, c) == ~q_empty(q) /\ c

\* process_requests: the loop test and, when it passes, front() and pop();
\* when it fails the function returns and the lock guard releases the mutex.
process_requests_next ==
    /\ run_pc = "pr_check"
    /\ IF DrainCond(work_queue_, connected_)
       THEN /\ item' = q_front(work_queue_)
            /\ work_queue_' = q_pop(work_queue_)
            /\ run_pc' = "pr_call"
            /\ UNCHANGED work_mutex_
       ELSE /\ work_mutex_' = "free"
            /\ run_pc' = "health"
            /\ UNCHANGED <<item, work_queue_>>
    /\ UNCHANGED <<client_, connected_, should_stop_,
                   sleep_detected, is_connected, link, pending, forced,
                   object_, enq, cold, dispatched, finished, connect_calls,
                   shutdown_count, stop_calls, use_after_destroy, events, eqVars, setupVars, clockVars, b64, lockVars, adminVars>>
\* Mutant: a rejected publish is not reported.
SyncFailureEvent_NoPublish(type) ==
    CASE type = "SUBSCRIBE" -> "SUBSCRIBE_FAILURE"
      [] type = "PUBLISH" -> NULL
      [] type = "UNSUBSCRIBE" -> NULL

\* The event process_requests pushes when the engine rejects the call
\* synchronously (NULL: none; MQTTAsync_unsubscribe's result is not read).
SyncFailureEvent(type) ==
    CASE type = "SUBSCRIBE" -> "SUBSCRIBE_FAILURE"
      [] type = "PUBLISH" -> "PUBLISH_FAILURE"
      [] type = "UNSUBSCRIBE" -> NULL

\* Mutant: the failure message does not name the topic.
SyncFailureMessage_NoTopic(it) == 0

\* The message of the event pushed on a synchronous rejection:
\* "Subscribe request failed: " + item.topic (likewise for publish), as the
\* topic it names. The events the callbacks push carry no topic.
SyncFailureMessage(it) == it.topic

\* MQTTEvent(type, "... request failed: " + item.topic)
SyncFailure(it) ==
    [type |-> SyncFailureEvent(it.type), req |-> it.id,
     message |-> SyncFailureMessage(it)]

\* process_requests: the switch: the engine call for `item` and the handling of
\* its return code. An accepted request stays with the engine until it
\* completes; a rejected one is over at once.
process_requests_dispatch ==
    /\ run_pc = "pr_call"
    /\ dispatched' = Append(dispatched, [id |-> item.id, type |-> item.type])
    /\ \E accepted \in BOOLEAN :
        IF accepted
        THEN /\ pending' = pending \cup {[id |-> item.id, type |-> item.type]}
             /\ UNCHANGED <<finished, events>>
        ELSE /\ finished' = finished \cup {item.id}
             /\ IF SyncFailureEvent(item.type) # NULL
                THEN events' = Pushed(events, SyncFailure(item))
                ELSE UNCHANGED events
             /\ UNCHANGED pending
    /\ item' = NoItem
    /\ cold' = cold \ {item.id}
    /\ run_pc' = "pr_check"
    /\ UNCHANGED <<client_, connected_, should_stop_, work_mutex_, work_queue_,
                   sleep_detected, is_connected, link, forced,
                   object_, enq, connect_calls,
                   shutdown_count, stop_calls, use_after_destroy, eqVars, setupVars, clockVars, b64, lockVars, adminVars>>

\* ---- run(): the health check

\* run(): `if (elapsed_ms >= connection_check_interval_ms)`: either the check is
\* not due and the iteration ends (sleep_for, back to the loop test), or
\* check_connection_health starts with detect_sleep_resume(), whose result
\* depends on the clock.
run_health ==
    /\ run_pc = "health"
    /\ \/ /\ run_pc' = "loop"
          /\ UNCHANGED sleep_detected
       \/ /\ \E sd \in BOOLEAN : sleep_detected' = sd
          /\ run_pc' = "hc_flag"
    /\ UNCHANGED <<client_, connected_, should_stop_, work_mutex_, work_queue_,
                   item, is_connected, link, pending, forced,
                   object_, enq, cold, dispatched, finished, connect_calls,
                   shutdown_count, stop_calls, use_after_destroy, events, eqVars, setupVars, clockVars, b64, lockVars, adminVars>>

\* check_connection_health: `if (!connected_.load()) return;` (the locals end
\* with the call: they are reset when it returns)
check_connection_health_flag ==
    /\ run_pc = "hc_flag"
    /\ IF ~connected_
       THEN run_pc' = "loop" /\ sleep_detected' = FALSE
       ELSE run_pc' = "hc_query" /\ UNCHANGED sleep_detected
    /\ UNCHANGED <<client_, connected_, should_stop_, work_mutex_, work_queue_,
                   item, is_connected, link, pending, forced,
                   object_, enq, cold, dispatched, finished, connect_calls,
                   shutdown_count, stop_calls, use_after_destroy, events, eqVars, setupVars, clockVars, b64, lockVars, adminVars>>

\* MQTTAsync_isConnected(client_)
MQTTAsync_isConnected == link = "up"

\* check_connection_health: `int is_connected = MQTTAsync_isConnected(client_);`
check_connection_health_query ==
    /\ run_pc = "hc_query"
    /\ is_connected' = MQTTAsync_isConnected
    /\ run_pc' = "hc_act"
    /\ UNCHANGED <<client_, connected_, should_stop_, work_mutex_, work_queue_,
                   item, sleep_detected, link, pending, forced,
                   object_, enq, cold, dispatched, finished, connect_calls,
                   shutdown_count, stop_calls, use_after_destroy, events, eqVars, setupVars, clockVars, b64, lockVars, adminVars>>

\* Mutant: the event carries no detail.
StaleConnectionEvent_NoDetail == MQTTEvent("CONNECTION_LOST", 0)

\* MQTTEvent(EventType::CONNECTION_LOST, "Stale connection detected")
StaleConnectionEvent ==
    [type |-> "CONNECTION_LOST", req |-> 0, message |-> "Stale connection detected"]

\* check_connection_health after the liveness query. Not connected: clear the
\* flag, push ConnectionLost, return. Otherwise, when a sleep was detected and
\* last_activity_ is older than 2 x keep-alive (a clock comparison: `stale`),
\* clear the flag and start the detached disconnect thread. The function ends
\* with update_last_activity(); the iteration ends with sleep_for.
check_connection_health_act ==
    /\ run_pc = "hc_act"
    /\ IF ~is_connected
       THEN /\ connected_' = FALSE
            /\ events' = Pushed(events, StaleConnectionEvent)
            /\ UNCHANGED forced
       ELSE /\ \E stale \in BOOLEAN :
                IF sleep_detected /\ stale
                THEN connected_' = FALSE /\ forced' = forced + 1
                ELSE UNCHANGED <<connected_, forced>>
            /\ UNCHANGED events
    /\ run_pc' = "loop"
    /\ sleep_detected' = FALSE
    /\ is_connected' = FALSE
    /\ UNCHANGED <<client_, should_stop_, work_mutex_, work_queue_,
                   item, link, pending,
                   object_, enq, cold, dispatched, finished, connect_calls,
                   shutdown_count, stop_calls, use_after_destroy, eqVars, setupVars, clockVars, b64, lockVars, adminVars>>

\* Mutant: the detached thread also calls MQTTAsync_connect.
forced_disconnect_Reconnects ==
    /\ forced > 0
    /\ forced' = forced - 1
    /\ connect_calls' = connect_calls + 1
    /\ IF EngineAlive
       THEN link' = "closed" /\ UNCHANGED use_after_destroy
       ELSE use_after_destroy' = TRUE /\ UNCHANGED link
    /\ UNCHANGED <<client_, connected_, should_stop_, work_mutex_, work_queue_,
                   run_pc, item, sleep_detected, is_connected, pending,
                   object_, enq, cold, dispatched, finished,
                   shutdown_count, stop_calls, events, eqVars, setupVars, clockVars, b64, lockVars, adminVars>>

\* The detached thread of check_connection_health: MQTTAsync_disconnect(client_).
\* Nothing joins it: it may run after the handle was destroyed.
forced_disconnect ==
    /\ forced > 0
    /\ forced' = forced - 1
    /\ IF EngineAlive
       THEN link' = "closed" /\ UNCHANGED use_after_destroy
       ELSE use_after_destroy' = TRUE /\ UNCHANGED link
    /\ UNCHANGED <<client_, connected_, should_stop_, work_mutex_, work_queue_,
                   run_pc, item, sleep_detected, is_connected, pending,
                   object_, enq, cold, dispatched, finished, connect_calls,
                   shutdown_count, stop_calls, events, eqVars, setupVars, clockVars, b64, lockVars, adminVars>>

\* ---- run(): shutdown
\* Mutant: the inverted test.
HasClient_Inverted(c) == c = NULL

\* disconnect_from_broker: `if (client_)`
HasClient(c) == c # NULL

\* disconnect_from_broker: MQTTAsync_disconnect, MQTTAsync_destroy,
\* client_ = nullptr; the destroyed engine drops what it had pending. Then the
\* temporary certificate file, if its name is set and it exists, is removed.
disconnect_from_broker ==
    /\ run_pc = "disconnect"
    /\ IF HasClient(client_)
       THEN /\ client_' = NULL
            /\ link' = "destroyed"
            /\ pending' = {}
            /\ shutdown_count' = shutdown_count + 1
       ELSE UNCHANGED <<client_, link, pending, shutdown_count>>
    /\ files' = IF temp_cert_file_ # "" /\ temp_cert_file_ \in files
                 THEN files \ {temp_cert_file_} ELSE files
    /\ run_pc' = "stopping"
    /\ UNCHANGED <<connected_, should_stop_, work_mutex_, work_queue_,
                   item, sleep_detected, is_connected, forced,
                   object_, enq, cold, dispatched, finished, connect_calls,
                   stop_calls, use_after_destroy, events, eqVars,
                   config_, platform, sys, temp_cert_file_, server_uri,
                   probes, resolved, trust_store, clockVars, b64, lockVars, adminVars>>

\* run(): connected_.store(false) and return.
run_return ==
    /\ run_pc = "stopping"
    /\ connected_' = FALSE
    /\ run_pc' = "done"
    /\ UNCHANGED <<client_, should_stop_, work_mutex_, work_queue_,
                   item, sleep_detected, is_connected, link, pending, forced,
                   object_, enq, cold, dispatched, finished, connect_calls,
                   shutdown_count, stop_calls, use_after_destroy, events, eqVars, setupVars, clockVars, b64, lockVars, adminVars>>

\* ---- engine callbacks (engine threads)

\* on_connect_success: connected_.store(true), update_last_activity(),
\* push Connected. The engine calls it when a connect attempt (the first one or
\* an automatic reconnect) succeeds.
on_connect_success ==
    /\ link \in {"connecting", "lost", "closed"}
    /\ Epoch < MaxConnects
    /\ link' = "up"
    /\ connected_' = TRUE
    /\ cold' = {}
    /\ last_activity_' = now
    /\ events' = Pushed(events, MQTTEvent("CONNECTED", 0))
    /\ UNCHANGED <<client_, should_stop_, work_mutex_, work_queue_, run_pc,
                   item, sleep_detected, is_connected, pending, forced,
                   object_, enq, dispatched, finished, connect_calls,
                   shutdown_count, stop_calls, use_after_destroy, eqVars, setupVars,
                   now, last_check_time_, last_health_check, b64, lockVars, adminVars>>

\* on_connect_failure: push Error. The engine keeps retrying.
on_connect_failure ==
    /\ link \in {"connecting", "lost"}
    /\ CountEv("ERROR") < MaxConnFail
    /\ events' = Pushed(events, MQTTEvent("ERROR", 0))
    /\ UNCHANGED <<client_, connected_, should_stop_, work_mutex_, work_queue_,
                   run_pc, item, sleep_detected, is_connected, link, pending,
                   forced, object_, enq, cold, dispatched, finished, connect_calls, shutdown_count, stop_calls,
                   use_after_destroy, eqVars, setupVars, clockVars, b64, lockVars, adminVars>>

\* on_connection_lost: connected_.store(false), push ConnectionLost.
on_connection_lost ==
    /\ link = "up"
    /\ link' = "lost"
    /\ connected_' = FALSE
    /\ events' = Pushed(events, MQTTEvent("CONNECTION_LOST", 0))
    /\ UNCHANGED <<client_, should_stop_, work_mutex_, work_queue_, run_pc,
                   item, sleep_detected, is_connected, pending, forced,
                   object_, enq, cold, dispatched, finished, connect_calls,
                   shutdown_count, stop_calls, use_after_destroy, eqVars, setupVars, clockVars, b64, lockVars, adminVars>>

\* The callbacks process_requests registers per request type in
\* MQTTAsync_responseOptions, as the event each pushes (NULL: no callback:
\* the unsubscribe options carry only the context).
CompletionEvent(type, ok) ==
    CASE type = "SUBSCRIBE" -> IF ok THEN "SUBSCRIBE_SUCCESS" ELSE "SUBSCRIBE_FAILURE"
      [] type = "PUBLISH" -> IF ok THEN "PUBLISH_SUCCESS" ELSE "PUBLISH_FAILURE"
      [] type = "UNSUBSCRIBE" -> NULL

\* The engine completes request r, successfully or not, and invokes the
\* callback registered for that outcome, if any.
Complete(r, ok) ==
    /\ EngineAlive
    /\ r \in pending
    /\ pending' = pending \ {r}
    /\ finished' = finished \cup {r.id}
    /\ IF CompletionEvent(r.type, ok) # NULL
       THEN events' = Pushed(events, MQTTEvent(CompletionEvent(r.type, ok), r.id))
       ELSE UNCHANGED events
    /\ UNCHANGED <<client_, connected_, should_stop_, work_mutex_, work_queue_,
                   run_pc, item, sleep_detected, is_connected, link,
                   forced, object_, enq, cold, dispatched,
                   connect_calls, shutdown_count, stop_calls,
                   use_after_destroy, eqVars, setupVars, clockVars, b64, lockVars, adminVars>>

on_subscribe_success == \E r \in pending : r.type = "SUBSCRIBE" /\ Complete(r, TRUE)

on_subscribe_failure == \E r \in pending : r.type = "SUBSCRIBE" /\ Complete(r, FALSE)

on_send_success == \E r \in pending : r.type = "PUBLISH" /\ Complete(r, TRUE)

on_send_failure == \E r \in pending : r.type = "PUBLISH" /\ Complete(r, FALSE)

\* An unsubscribe completes inside the engine: no callback is registered.
unsubscribe_completes ==
    \E r \in pending, ok \in BOOLEAN : r.type = "UNSUBSCRIBE" /\ Complete(r, ok)

\* ---- the session's specification

RunThread ==
    \/ connect_to_broker
    \/ run_loop
    \/ process_requests_lock
    \/ process_requests_next
    \/ process_requests_dispatch
    \/ run_health
    \/ check_connection_health_flag
    \/ check_connection_health_query
    \/ check_connection_health_act
    \/ disconnect_from_broker
    \/ run_return

Next ==
    \/ RunThread
    \/ request_subscribe
    \/ request_publish
    \/ request_unsubscribe
    \/ stop
    \/ Destructor
    \/ forced_disconnect
    \/ on_connect_success
    \/ on_connect_failure
    \/ on_connection_lost
    \/ on_subscribe_success
    \/ on_subscribe_failure
    \/ on_send_success
    \/ on_send_failure
    \/ unsubscribe_completes

Spec == Init /\ [][Next]_vars

\* The run thread is scheduled: a step of run() that can be taken is
\* eventually taken.
FairSpec == Spec /\ WF_vars(RunThread)

\* ------------------------------------------------------------ EventQueue
\* Mutant: the new event goes to the front.
push_Front(q, e) == <<e>> \o q

\* EventQueue::push: queue_.push(std::move(event)).
push(q, e) == q_push(q, e)

\* Mutant: the head is returned and left in the queue.
take_Keep(q) == q

\* EventQueue::pop / try_pop: queue_.pop() after the front was moved out.
take(q) == q_pop(q)

\* Mutant: a timeout ends the wait without a last look at the predicate.
wait_for_NoRecheck(q, timedout) ==
    IF timedout THEN "nullopt" ELSE IF ~q_empty(q) THEN "item" ELSE "wait"

\* cv_.wait_for(lock, timeout, [this] { return !queue_.empty(); }) as pop uses
\* it, evaluated with the lock held: the predicate holds ("item"), or it does
\* not and the timeout has passed ("nullopt"), or the thread waits ("wait").
wait_for(q, timedout) ==
    IF ~q_empty(q) THEN "item" ELSE IF timedout THEN "nullopt" ELSE "wait"

\* The frame of a SpecEQ step of thread t that moves it to position pc.
EQStep(t, pc) ==
    /\ eq_pc' = [eq_pc EXCEPT ![t] = pc]
    /\ UNCHANGED <<sessVars, setupVars, clockVars, b64, lockVars, adminVars>>

\* push: std::lock_guard<std::mutex> lock(mutex_)
push_lock(p) ==
    /\ eq_pc[p] = "idle"
    /\ nopush[p] < MaxPush
    /\ mutex_ = "free"
    /\ mutex_' = p
    /\ EQStep(p, "push_cs")
    /\ UNCHANGED <<queue_, waiters, timed_out, pushed, popped, nopush>>

\* push: queue_.push, cv_.notify_one() (one waiter, if any, is woken), and the
\* lock guard's release.
push_body(p) ==
    LET e == [prod |-> p, seq |-> nopush[p] + 1]
    IN  /\ eq_pc[p] = "push_cs"
        /\ queue_' = push(queue_, e)
        /\ pushed' = Append(pushed, e)
        /\ nopush' = [nopush EXCEPT ![p] = @ + 1]
        /\ mutex_' = "free"
        /\ IF waiters = {}
           THEN /\ UNCHANGED waiters
                /\ eq_pc' = [eq_pc EXCEPT ![p] = "idle"]
           ELSE \E w \in waiters :
                /\ waiters' = waiters \ {w}
                /\ eq_pc' = [eq_pc EXCEPT ![p] = "idle", ![w] = "pop_relock"]
        /\ UNCHANGED <<timed_out, popped>>
        /\ UNCHANGED <<sessVars, setupVars, clockVars, b64, lockVars, adminVars>>

\* pop: std::unique_lock<std::mutex> lock(mutex_)
pop_lock(c) ==
    /\ eq_pc[c] = "idle"
    /\ mutex_ = "free"
    /\ mutex_' = c
    /\ timed_out' = [timed_out EXCEPT ![c] = FALSE]
    /\ EQStep(c, "pop_pred")
    /\ UNCHANGED <<queue_, waiters, pushed, popped, nopush>>

\* pop with the lock held, at wait_for's test of the predicate: take the front
\* and return it, return nullopt, or release the lock and wait.
pop_body(c) ==
    /\ eq_pc[c] = "pop_pred"
    /\ LET r == wait_for(queue_, timed_out[c])
       IN  CASE r = "item" ->
                  /\ popped' = Append(popped, q_front(queue_))
                  /\ queue_' = take(queue_)
                  /\ EQStep(c, "idle")
                  /\ UNCHANGED waiters
             [] r = "nullopt" ->
                  /\ EQStep(c, "idle")
                  /\ UNCHANGED <<popped, queue_, waiters>>
             [] r = "wait" ->
                  /\ waiters' = waiters \cup {c}
                  /\ EQStep(c, "pop_wait")
                  /\ UNCHANGED <<popped, queue_>>
    /\ mutex_' = "free"
    /\ UNCHANGED <<timed_out, pushed, nopush>>

\* pop: the wait ends without a notification: the timeout passes, or the
\* thread wakes spuriously.
pop_wake(c) ==
    /\ eq_pc[c] = "pop_wait"
    /\ c \in waiters
    /\ waiters' = waiters \ {c}
    /\ \E t \in BOOLEAN : timed_out' = [timed_out EXCEPT ![c] = t]
    /\ EQStep(c, "pop_relock")
    /\ UNCHANGED <<queue_, mutex_, pushed, popped, nopush>>

\* pop: wait_for takes the lock again before it returns to the predicate.
pop_relock(c) ==
    /\ eq_pc[c] = "pop_relock"
    /\ mutex_ = "free"
    /\ mutex_' = c
    /\ EQStep(c, "pop_pred")
    /\ UNCHANGED <<queue_, waiters, timed_out, pushed, popped, nopush>>

\* try_pop: std::lock_guard<std::mutex> lock(mutex_)
try_pop_lock(c) ==
    /\ eq_pc[c] = "idle"
    /\ mutex_ = "free"
    /\ mutex_' = c
    /\ EQStep(c, "try_pop_cs")
    /\ UNCHANGED <<queue_, waiters, timed_out, pushed, popped, nopush>>

\* try_pop with the lock held: nullopt when empty, else the front.
try_pop_body(c) ==
    /\ eq_pc[c] = "try_pop_cs"
    /\ IF q_empty(queue_)
       THEN UNCHANGED <<popped, queue_>>
       ELSE /\ popped' = Append(popped, q_front(queue_))
            /\ queue_' = take(queue_)
    /\ mutex_' = "free"
    /\ EQStep(c, "idle")
    /\ UNCHANGED <<waiters, timed_out, pushed, nopush>>

NextEQ ==
    \/ \E p \in Producers : push_lock(p) \/ push_body(p)
    \/ \E c \in Consumers :
        \/ pop_lock(c)
        \/ pop_body(c)
        \/ pop_wake(c)
        \/ pop_relock(c)
        \/ try_pop_lock(c)
        \/ try_pop_body(c)

SpecEQ == Init /\ [][NextEQ]_vars

\* SpecEQAdmin: the EventQueue with its consumers also calling size(),
\* empty() and clear().

\* Mutant: clear leaves the newest event in the queue.
clear_KeepsBack(q) == IF q = <<>> THEN q ELSE <<q[Len(q)]>>

\* EventQueue::clear: std::swap(queue_, empty) with an empty std::queue.
clear(q) == <<>>

\* std::queue::size
q_size(q) == Len(q)

\* The frame of a step of the queue's functions that returns a value or
\* discards events.
AdminStep(c, pc) ==
    /\ eq_pc' = [eq_pc EXCEPT ![c] = pc]
    /\ UNCHANGED <<sessVars, setupVars, clockVars, b64, lockVars>>

\* size: std::lock_guard<std::mutex> lock(mutex_)
size_lock(c) ==
    /\ eq_pc[c] = "idle"
    /\ mutex_ = "free"
    /\ mutex_' = c
    /\ EQStep(c, "size_cs")
    /\ UNCHANGED <<queue_, waiters, timed_out, pushed, popped, nopush>>

\* size with the lock held: return queue_.size().
size_body(c) ==
    /\ eq_pc[c] = "size_cs"
    /\ ret' = [ret EXCEPT ![c] = [fn |-> "size", val |-> q_size(queue_)]]
    /\ mutex_' = "free"
    /\ AdminStep(c, "idle")
    /\ UNCHANGED <<queue_, waiters, timed_out, pushed, popped, nopush, cleared>>

\* empty: std::lock_guard<std::mutex> lock(mutex_)
empty_lock(c) ==
    /\ eq_pc[c] = "idle"
    /\ mutex_ = "free"
    /\ mutex_' = c
    /\ EQStep(c, "empty_cs")
    /\ UNCHANGED <<queue_, waiters, timed_out, pushed, popped, nopush>>

\* empty with the lock held: return queue_.empty().
empty_body(c) ==
    /\ eq_pc[c] = "empty_cs"
    /\ ret' = [ret EXCEPT ![c] = [fn |-> "empty", val |-> q_empty(queue_)]]
    /\ mutex_' = "free"
    /\ AdminStep(c, "idle")
    /\ UNCHANGED <<queue_, waiters, timed_out, pushed, popped, nopush, cleared>>

\* clear: std::lock_guard<std::mutex> lock(mutex_)
clear_lock(c) ==
    /\ eq_pc[c] = "idle"
    /\ mutex_ = "free"
    /\ mutex_' = c
    /\ EQStep(c, "clear_cs")
    /\ UNCHANGED <<queue_, waiters, timed_out, pushed, popped, nopush>>

\* clear with the lock held: the queue's content is swapped out and destroyed
\* with the local; no waiter is notified.
clear_body(c) ==
    /\ eq_pc[c] = "clear_cs"
    /\ queue_' = clear(queue_)
    /\ cleared' = cleared \o SubSeq(queue_, 1, Len(queue_) - Len(clear(queue_)))
    /\ mutex_' = "free"
    /\ AdminStep(c, "idle")
    /\ UNCHANGED <<waiters, timed_out, pushed, popped, nopush, ret>>

NextEQAdmin ==
    \/ \E p \in Producers : push_lock(p) \/ push_body(p)
    \/ \E c \in Consumers :
        \/ pop_lock(c)
        \/ pop_body(c)
        \/ pop_wake(c)
        \/ pop_relock(c)
        \/ try_pop_lock(c)
        \/ try_pop_body(c)
        \/ size_lock(c)
        \/ size_body(c)
        \/ empty_lock(c)
        \/ empty_body(c)
        \/ clear_lock(c)
        \/ clear_body(c)

SpecEQAdmin == Init /\ [][NextEQAdmin]_vars

\* ------------------------------------------------------------ setup in detail
\* SpecSetup: run() for every configuration, platform and state of the file
\* system, with connect_to_broker taken step by step; no requests are made and
\* the engine reports nothing, so the loop only waits for stop().

Platforms == {"windows", "apple", "linux", "other"}

\* setup_ssl_cert: the pre-installed bundle paths the build probes, in order
\* (macos_cert_paths under __APPLE__, linux_cert_paths under __linux__).
BundlePaths(plat) ==
    CASE plat = "apple" ->
           <<"/etc/ssl/cert.pem",
             "/usr/local/etc/openssl@3/cert.pem",
             "/usr/local/etc/openssl@1.1/cert.pem",
             "/opt/homebrew/etc/openssl@3/cert.pem",
             "/opt/homebrew/etc/openssl@1.1/cert.pem",
             "/usr/local/etc/openssl/cert.pem">>
      [] plat = "linux" ->
           <<"/etc/ssl/certs/ca-certificates.crt",
             "/etc/pki/tls/certs/ca-bundle.crt",
             "/etc/ssl/ca-bundle.pem",
             "/etc/ssl/cert.pem">>
      [] OTHER -> <<>>

\* extract_system_certificates: the platform's extraction on Windows and
\* macOS, the empty string elsewhere.
extract_system_certificates(plat, s) ==
    IF plat \in {"windows", "apple"} THEN s.pem_certs ELSE ""

\* Mutant: the loop over the bundle paths returns the last one that exists.
RECURSIVE ProbeBundles_Last(_, _, _)
ProbeBundles_Last(paths, fs, k) ==
    LET n == Len(paths) + 1 - k
    IN  IF k > Len(paths) THEN [path |-> NULL, probed |-> paths]
        ELSE IF paths[n] \in fs THEN [path |-> paths[n], probed |-> paths]
        ELSE ProbeBundles_Last(paths, fs, k + 1)

\* setup_ssl_cert: `for (path : paths) if (fs::exists(path)) return path;`
\* from the k-th path on: the path returned (NULL: none) and those probed.
RECURSIVE ProbeBundles(_, _, _)
ProbeBundles(paths, fs, k) ==
    IF k > Len(paths) THEN [path |-> NULL, probed |-> paths]
    ELSE IF paths[k] \in fs THEN [path |-> paths[k], probed |-> SubSeq(paths, 1, k)]
    ELSE ProbeBundles(paths, fs, k + 1)

\* The mark setup_ssl_cert's call of extract_system_certificates leaves in
\* the record of the sources it examined.
Extraction == "extract_system_certificates"

\* Mutant: a configured certificate path is returned without fs::exists.
UserCertUsable_Unchecked(cfg, fs) == cfg.cert_file_path # NULL

\* setup_ssl_cert: `cert_file_path.has_value() && fs::exists(...)`
UserCertUsable(cfg, fs) == cfg.cert_file_path # NULL /\ cfg.cert_file_path \in fs

\* setup_ssl_cert: what it returns (ret; NULL: it throws), the sources it
\* examined in order, the value it leaves in temp_cert_file_ and whether it
\* wrote that file.
setup_ssl_cert(cfg, plat, s, fs) ==
    IF UserCertUsable(cfg, fs)
    THEN [ret |-> cfg.cert_file_path, probes |-> <<cfg.cert_file_path>>,
          temp |-> "", written |-> FALSE]
    ELSE
      LET user == IF cfg.cert_file_path # NULL THEN <<cfg.cert_file_path>> ELSE <<>>
          b == ProbeBundles(BundlePaths(plat), fs, 1)
          pem == extract_system_certificates(plat, s)
      IN  IF b.path # NULL
          THEN [ret |-> b.path, probes |-> user \o b.probed,
                temp |-> "", written |-> FALSE]
          ELSE IF pem = ""
          THEN [ret |-> NULL, probes |-> user \o b.probed \o <<Extraction>>,
                temp |-> "", written |-> FALSE]
          ELSE IF ~s.can_create
          THEN [ret |-> NULL, probes |-> user \o b.probed \o <<Extraction>>,
                temp |-> TempCertPath, written |-> FALSE]
          ELSE [ret |-> TempCertPath, probes |-> user \o b.probed \o <<Extraction>>,
                temp |-> TempCertPath, written |-> TRUE]

\* The elements of a sequence.
Range(q) == {q[i] : i \in 1..Len(q)}

\* The state after construction, for any configuration, platform and file
\* system.
InitSetup ==
    /\ InitSession
    /\ b64 = B64Idle
    /\ InitQueue
    /\ config_ \in {WithDefaultPort(c) : c \in Configs}
    /\ platform \in Platforms
    /\ sys \in [pem_certs : {"", "PEM"}, can_create : BOOLEAN]
    /\ files \in SUBSET ({UserCertPath} \cup Range(BundlePaths(platform)))

\* Mutant: the WebSocket path is appended for every transport.
ServerURI_AlwaysPath(cfg) ==
    get_protocol_string(cfg) \o Str_colon_slashes \o cfg.broker_host
        \o Str_colon \o to_string(cfg.broker_port) \o cfg.websocket_path

\* connect_to_broker: server_uri
ServerURI(cfg) ==
    IF cfg.use_websockets
    THEN get_protocol_string(cfg) \o Str_colon_slashes \o cfg.broker_host
             \o Str_colon \o to_string(cfg.broker_port) \o cfg.websocket_path
    ELSE get_protocol_string(cfg) \o Str_colon_slashes \o cfg.broker_host
             \o Str_colon \o to_string(cfg.broker_port)

\* connect_to_broker returns false with outcome o: the Error event, if the
\* path pushes one; MQTTAsync_destroy where a handle exists; run() returns.
FailSetup(o) ==
    /\ events' = IF SetupErrorEvent(o) # NULL
                  THEN Pushed(events, MQTTEvent(SetupErrorEvent(o), 0))
                  ELSE events
    /\ client_' = NULL
    /\ run_pc' = "failed"

\* connect_to_broker: the URI and MQTTAsync_create.
ctb_create ==
    /\ run_pc = "start"
    /\ object_ = "live"
    /\ server_uri' = ServerURI(config_)
    /\ \E ok \in BOOLEAN :
        IF ok THEN client_' = "valid" /\ run_pc' = "ctb_callbacks" /\ UNCHANGED events
        ELSE FailSetup("create_failed")
    /\ UNCHANGED <<connected_, should_stop_, work_mutex_, work_queue_, item,
                   sleep_detected, is_connected, link, pending, forced, object_,
                   enq, cold, dispatched, finished, connect_calls,
                   shutdown_count, stop_calls, use_after_destroy, eqVars,
                   config_, platform, sys, files, temp_cert_file_, probes,
                   resolved, trust_store, clockVars, b64, lockVars, adminVars>>

\* connect_to_broker: MQTTAsync_setCallbacks.
ctb_callbacks ==
    /\ run_pc = "ctb_callbacks"
    /\ \E ok \in BOOLEAN :
        IF ok THEN run_pc' = "ctb_ssl" /\ UNCHANGED <<client_, events>>
        ELSE FailSetup("callbacks_failed")
    /\ UNCHANGED <<connected_, should_stop_, work_mutex_, work_queue_, item,
                   sleep_detected, is_connected, link, pending, forced, object_,
                   enq, cold, dispatched, finished, connect_calls,
                   shutdown_count, stop_calls, use_after_destroy, eqVars,
                   setupVars, clockVars, b64, lockVars, adminVars>>

\* connect_to_broker: `if (config_.use_ssl) { try { setup_ssl_cert() ... }
\* catch { MQTTAsync_destroy; return false; } }`
ctb_ssl ==
    /\ run_pc = "ctb_ssl"
    /\ IF config_.use_ssl
       THEN LET r == setup_ssl_cert(config_, platform, sys, files)
            IN  /\ probes' = r.probes
                /\ resolved' = r.ret
                /\ temp_cert_file_' = r.temp
                /\ files' = IF r.written THEN files \cup {r.temp} ELSE files
                /\ IF r.ret = NULL
                   THEN FailSetup("ssl_failed")
                   ELSE run_pc' = "ctb_connect" /\ UNCHANGED <<client_, events>>
       ELSE /\ run_pc' = "ctb_connect"
            /\ UNCHANGED <<client_, events, probes, resolved, temp_cert_file_, files>>
    /\ UNCHANGED <<connected_, should_stop_, work_mutex_, work_queue_, item,
                   sleep_detected, is_connected, link, pending, forced, object_,
                   enq, cold, dispatched, finished, connect_calls,
                   shutdown_count, stop_calls, use_after_destroy, eqVars,
                   config_, platform, sys, server_uri, trust_store, clockVars, b64, lockVars, adminVars>>

\* connect_to_broker: MQTTAsync_connect. ssl_opts.trustStore points into
\* `cert_file`, a local of the try block that no longer exists at this call:
\* what the engine reads there is the resolved path or anything else.
ctb_connect ==
    /\ run_pc = "ctb_connect"
    /\ connect_calls' = connect_calls + 1
    /\ trust_store' \in (IF config_.use_ssl THEN {resolved, "indeterminate"}
                         ELSE {NULL})
    /\ \E ok \in BOOLEAN :
        IF ok
        THEN /\ link' = "connecting" /\ run_pc' = "loop"
             /\ last_health_check' = now
             /\ UNCHANGED <<client_, events>>
        ELSE FailSetup("connect_rejected") /\ UNCHANGED <<link, last_health_check>>
    /\ UNCHANGED <<connected_, should_stop_, work_mutex_, work_queue_, item,
                   sleep_detected, is_connected, pending, forced, object_,
                   enq, cold, dispatched, finished,
                   shutdown_count, stop_calls, use_after_destroy, eqVars,
                   config_, platform, sys, files, temp_cert_file_, server_uri,
                   probes, resolved, now, last_activity_, last_check_time_, b64, lockVars, adminVars>>

NextSetup ==
    \/ ctb_create
    \/ ctb_callbacks
    \/ ctb_ssl
    \/ ctb_connect
    \/ run_loop
    \/ process_requests_lock
    \/ process_requests_next
    \/ run_health
    \/ check_connection_health_flag
    \/ disconnect_from_broker
    \/ run_return
    \/ stop
    \/ Destructor

SpecSetup == InitSetup /\ [][NextSetup]_vars

\* ------------------------------------------------------------ the health check with its clock
\* SpecHealth: the run loop and the health check with the steady clock
\* explicit. Time advances in ticks, at any moment and by any amount (a
\* suspended machine is a run of ticks without a step of the run thread). No
\* requests are made and stop() is not called.

\* Clock ticks per second.
TicksPerSec == 2
\* The clock stops advancing here.
MaxTime == 10
\* Messages the engine delivers.
MaxMsgs == 1

\* std::chrono::duration_cast<std::chrono::seconds>(d).count(), d >= 0:
\* whole seconds, the fraction dropped.
duration_cast_seconds(d) == d \div TicksPerSec

\* std::chrono::duration_cast<std::chrono::milliseconds>(d).count()
duration_cast_milliseconds(d) == (d * 1000) \div TicksPerSec

\* Mutant: the configured interval in whole seconds, without the added second.
expected_interval_sec_Configured(cfg) == cfg.connection_check_interval_ms \div 1000

\* detect_sleep_resume: expected_interval_sec
expected_interval_sec(cfg) == (cfg.connection_check_interval_ms \div 1000) + 1

\* Mutant: every invocation flags a sleep.
SleepDetected_Always(cfg, t, last_check) == TRUE

\* detect_sleep_resume: `elapsed > expected_interval_sec * 3`
SleepDetected(cfg, t, last_check) ==
    duration_cast_seconds(t - last_check) > expected_interval_sec(cfg) * 3

\* Mutant: the comparison lets equality pass.
ActivityStale_AtLeast(cfg, t, last_act) ==
    duration_cast_seconds(t - last_act) >= cfg.keep_alive_seconds * 2

\* check_connection_health: `no_activity_sec > config_.keep_alive_seconds * 2`
ActivityStale(cfg, t, last_act) ==
    duration_cast_seconds(t - last_act) > cfg.keep_alive_seconds * 2

\* Sessions with short intervals, so that the thresholds lie within MaxTime.
HealthConfigs ==
    {[DefaultConfig EXCEPT !.keep_alive_seconds = k,
                           !.connection_check_interval_ms = i] :
        k \in {1, 2}, i \in {0, 500}}

InitHealth ==
    /\ InitSession
    /\ b64 = B64Idle
    /\ InitQueue
    /\ config_ \in HealthConfigs
    /\ platform = "linux"
    /\ sys = [pem_certs |-> "", can_create |-> TRUE]
    /\ files = {"/etc/ssl/certs/ca-certificates.crt"}

\* Time passes.
Tick ==
    /\ now < MaxTime
    /\ now' = now + 1
    /\ UNCHANGED <<sessVars, eqVars, setupVars, last_activity_,
                   last_check_time_, last_health_check, b64, lockVars, adminVars>>

\* run(): `now = steady_clock::now(); if (elapsed_ms >= interval)
\* { check_connection_health(); last_health_check = now; }` else sleep_for.
\* The check starts with detect_sleep_resume(), which compares the clock with
\* last_check_time_ and stores the clock there.
run_health_clocked ==
    /\ run_pc = "health"
    /\ IF duration_cast_milliseconds(now - last_health_check)
             >= config_.connection_check_interval_ms
       THEN /\ sleep_detected' = SleepDetected(config_, now, last_check_time_)
            /\ last_check_time_' = now
            /\ last_health_check' = now
            /\ run_pc' = "hc_flag"
       ELSE /\ run_pc' = "loop"
            /\ UNCHANGED <<sleep_detected, last_check_time_, last_health_check>>
    /\ UNCHANGED <<client_, connected_, should_stop_, work_mutex_, work_queue_,
                   item, is_connected, link, pending, forced,
                   object_, enq, cold, dispatched, finished, connect_calls,
                   shutdown_count, stop_calls, use_after_destroy, events, eqVars,
                   setupVars, now, last_activity_, b64, lockVars, adminVars>>

\* check_connection_health after the liveness query. Not connected: clear the
\* flag, push ConnectionLost, return. Otherwise, when a sleep was detected and
\* last_activity_ is stale, clear the flag and start the detached disconnect
\* thread; then, in either case, update_last_activity().
check_connection_health_act_clocked ==
    /\ run_pc = "hc_act"
    /\ IF ~is_connected
       THEN /\ connected_' = FALSE
            /\ events' = Pushed(events, StaleConnectionEvent)
            /\ UNCHANGED <<forced, last_activity_>>
       ELSE /\ IF sleep_detected /\ ActivityStale(config_, now, last_activity_)
               THEN connected_' = FALSE /\ forced' = forced + 1
               ELSE UNCHANGED <<connected_, forced>>
            /\ last_activity_' = now
            /\ UNCHANGED events
    /\ run_pc' = "loop"
    /\ sleep_detected' = FALSE
    /\ is_connected' = FALSE
    /\ UNCHANGED <<client_, should_stop_, work_mutex_, work_queue_,
                   item, link, pending,
                   object_, enq, cold, dispatched, finished, connect_calls,
                   shutdown_count, stop_calls, use_after_destroy, eqVars,
                   setupVars, now, last_check_time_, last_health_check, b64, lockVars, adminVars>>

\* on_message_arrived: update_last_activity(), push MessageArrived.
on_message_arrived ==
    /\ link = "up"
    /\ CountEv("MESSAGE_ARRIVED") < MaxMsgs
    /\ last_activity_' = now
    /\ events' = Pushed(events, MQTTEvent("MESSAGE_ARRIVED", 0))
    /\ UNCHANGED <<client_, connected_, should_stop_, work_mutex_, work_queue_,
                   run_pc, item, sleep_detected, is_connected, link, pending,
                   forced, object_, enq, cold, dispatched, finished,
                   connect_calls, shutdown_count, stop_calls,
                   use_after_destroy, eqVars, setupVars,
                   now, last_check_time_, last_health_check, b64, lockVars, adminVars>>

NextHealth ==
    \/ Tick
    \/ connect_to_broker
    \/ run_loop
    \/ process_requests_lock
    \/ process_requests_next
    \/ run_health_clocked
    \/ check_connection_health_flag
    \/ check_connection_health_query
    \/ check_connection_health_act_clocked
    \/ forced_disconnect
    \/ on_connect_success
    \/ on_connection_lost
    \/ on_message_arrived

SpecHealth == InitHealth /\ [][NextHealth]_vars

\* ------------------------------------------------------------ base64_encode
\* SpecB64: one call of base64_encode, for every byte sequence over
\* ByteSamples of at most MaxBytes bytes, its loop taken step by step.

\* Bytes in an input.
MaxBytes == 4
\* Byte values that exercise every mask: all bits clear, low bits, the
\* letters M, a, n, the high nibble, all bits set.
ByteSamples == {0, 1, 2, 77, 97, 110, 240, 255}

\* base64_chars
base64_chars ==
    <<"A", "B", "C", "D", "E", "F", "G", "H", "I", "J", "K", "L", "M",
      "N", "O", "P", "Q", "R", "S", "T", "U", "V", "W", "X", "Y", "Z",
      "a", "b", "c", "d", "e", "f", "g", "h", "i", "j", "k", "l", "m",
      "n", "o", "p", "q", "r", "s", "t", "u", "v", "w", "x", "y", "z",
      "0", "1", "2", "3", "4", "5", "6", "7", "8", "9", "+", "/">>

\* x & y, bit by bit.
RECURSIVE BitAnd(_, _)
BitAnd(x, y) ==
    IF x = 0 \/ y = 0 THEN 0
    ELSE (x % 2) * (y % 2) + 2 * BitAnd(x \div 2, y \div 2)

\* x >> k and x << k (on int, after integer promotion).
ShiftR(x, k) == x \div (2 ^ k)
ShiftL(x, k) == x * (2 ^ k)

\* A value stored into an unsigned char.
UChar(x) == x % 256

\* Mutant: the second sextet loses the bits it takes from the second byte.
Sextet2_NoCarry(c3) == UChar(ShiftL(BitAnd(c3[1], 3), 4))

\* char_array_4[0..3] as computed from char_array_3[0..2] (0xfc = 252,
\* 0x03 = 3, 0xf0 = 240, 0x0f = 15, 0xc0 = 192, 0x3f = 63).
Sextet1(c3) == UChar(ShiftR(BitAnd(c3[1], 252), 2))
Sextet2(c3) == UChar(ShiftL(BitAnd(c3[1], 3), 4) + ShiftR(BitAnd(c3[2], 240), 4))
Sextet3(c3) == UChar(ShiftL(BitAnd(c3[2], 15), 2) + ShiftR(BitAnd(c3[3], 192), 6))
Sextet4(c3) == UChar(BitAnd(c3[3], 63))

\* ret += base64_chars[char_array_4[j]] for j < n
Chars(c3, n) ==
    SubSeq(<<base64_chars[Sextet1(c3) + 1], base64_chars[Sextet2(c3) + 1],
             base64_chars[Sextet3(c3) + 1], base64_chars[Sextet4(c3) + 1]>>, 1, n)

\* while (i++ < 3) ret += '='
Padding(i) == [k \in 1..(3 - i) |-> "="]

\* All sequences over S of length at most n.
SeqsUpTo(S, n) == UNION {[1..k -> S] : k \in 0..n}

\* The call base64_encode(data, length). char_array_3 is not initialized:
\* it holds anything.
InitB64 ==
    /\ InitSession
    /\ InitQueue
    /\ config_ = DefaultConfig
    /\ platform = "apple"
    /\ sys = [pem_certs |-> "PEM", can_create |-> TRUE]
    /\ files = {}
    /\ \E d \in SeqsUpTo(ByteSamples, MaxBytes), g \in {0, 255} :
          b64 = [pc |-> "loop", input |-> d, data |-> d, length |-> Len(d),
                 i |-> 0, char_array_3 |-> <<g, g, g>>, ret |-> <<>>]

\* One iteration of `while (length--)`: char_array_3[i++] = *(data++); with
\* three bytes collected, the four characters are appended and i returns to 0.
b64_loop ==
    /\ b64.pc = "loop"
    /\ b64.length > 0
    /\ LET c3 == [b64.char_array_3 EXCEPT ![b64.i + 1] = Head(b64.data)]
       IN  b64' = [b64 EXCEPT !.length = @ - 1,
                              !.data = Tail(@),
                              !.char_array_3 = c3,
                              !.i = IF b64.i + 1 = 3 THEN 0 ELSE b64.i + 1,
                              !.ret = IF b64.i + 1 = 3 THEN @ \o Chars(c3, 4) ELSE @]
    /\ UNCHANGED <<sessVars, eqVars, setupVars, clockVars, lockVars, adminVars>>

\* After the loop: `if (i)`: the rest of char_array_3 is zeroed, i + 1
\* characters are appended and then the padding; return ret.
b64_finish ==
    /\ b64.pc = "loop"
    /\ b64.length = 0
    /\ LET c3 == [j \in 1..3 |-> IF j > b64.i THEN 0 ELSE b64.char_array_3[j]]
       IN  b64' = IF b64.i # 0
                  THEN [b64 EXCEPT !.pc = "done",
                                   !.char_array_3 = c3,
                                   !.ret = @ \o Chars(c3, b64.i + 1) \o Padding(b64.i)]
                  ELSE [b64 EXCEPT !.pc = "done"]
    /\ UNCHANGED <<sessVars, eqVars, setupVars, clockVars, lockVars, adminVars>>

NextB64 == b64_loop \/ b64_finish

SpecB64 == InitB64 /\ [][NextB64]_vars

\* ------------------------------------------------------------ the mutexes
\* SpecLocks: what every thread does to work_mutex_, to the event queue's
\* mutex_ and to activity_mutex_. A function is the sequence of its lock,
\* unlock and engine-call steps, one sequence per path through its code; which
\* path is taken is not followed, every path is possible at every call.

\* Work items process_requests drains in one call.
MaxDrain == 2

Mutexes == {"work_mutex_", "mutex_", "activity_mutex_"}

\* The owner of mutex m.
Owner(m) ==
    CASE m = "work_mutex_" -> work_mutex_
      [] m = "mutex_" -> mutex_
      [] m = "activity_mutex_" -> activity_mutex_

\* The steps of a function.
Lock(m) == [op |-> "lock", m |-> m]
Unlock(m) == [op |-> "unlock", m |-> m]
EngineCall == [op |-> "engine", m |-> NULL]
Detach == [op |-> "detach", m |-> NULL]

\* EventQueue::push: the lock_guard on mutex_ lives for the whole body.
push_locks == <<Lock("mutex_"), Unlock("mutex_")>>

\* EventQueue::pop: unique_lock on mutex_; cv_.wait_for returns at once when
\* the queue is not empty, and otherwise unlocks mutex_ while it waits and
\* locks it again before it returns.
pop_locks ==
    {<<Lock("mutex_"), Unlock("mutex_")>>,
     <<Lock("mutex_"), Unlock("mutex_"), Lock("mutex_"), Unlock("mutex_")>>}

\* EventQueue::try_pop
try_pop_locks == <<Lock("mutex_"), Unlock("mutex_")>>

\* update_last_activity
update_last_activity_locks == <<Lock("activity_mutex_"), Unlock("activity_mutex_")>>

\* detect_sleep_resume
detect_sleep_resume_locks == <<Lock("activity_mutex_"), Unlock("activity_mutex_")>>

\* Mutant: the guard of the sleep block lives to the end of the function.
SleepBlock_GuardToEnd(starts_thread) ==
    <<Lock("activity_mutex_")>>
        \o (IF starts_thread THEN <<Detach>> ELSE <<>>)
        \o update_last_activity_locks
        \o <<Unlock("activity_mutex_")>>

\* check_connection_health from `if (sleep_detected) {` to its end: the
\* lock_guard on activity_mutex_ lives to the end of the block, in which the
\* detached thread may be started; update_last_activity() follows the block.
SleepBlock(starts_thread) ==
    <<Lock("activity_mutex_")>>
        \o (IF starts_thread THEN <<Detach>> ELSE <<>>)
        \o <<Unlock("activity_mutex_")>>
        \o update_last_activity_locks

\* check_connection_health: the flag is false; the engine reports
\* not-connected; no sleep was flagged; a sleep was flagged, with or without
\* the start of the detached thread.
check_connection_health_locks ==
    {detect_sleep_resume_locks,
     detect_sleep_resume_locks \o <<EngineCall>> \o push_locks,
     detect_sleep_resume_locks \o <<EngineCall>> \o update_last_activity_locks}
    \cup {detect_sleep_resume_locks \o <<EngineCall>> \o SleepBlock(b) :
            b \in BOOLEAN}

\* process_requests' loop body for one item: the engine call and, when a
\* subscribe or publish is rejected, the push of the failure event.
ItemLocks == {<<EngineCall>>, <<EngineCall>> \o push_locks}

\* The loop bodies of process_requests for up to n items.
RECURSIVE DrainLocks(_)
DrainLocks(n) ==
    IF n = 0 THEN {<<>>}
    ELSE {<<>>} \cup {b \o r : b \in ItemLocks, r \in DrainLocks(n - 1)}

\* process_requests: the lock_guard on work_mutex_ lives for the whole body.
process_requests_locks ==
    {<<Lock("work_mutex_")>> \o b \o <<Unlock("work_mutex_")>> :
        b \in DrainLocks(MaxDrain)}

\* connect_to_broker: the engine calls, and the push of an Error event when
\* one of them fails.
connect_to_broker_locks == {<<EngineCall>>, <<EngineCall>> \o push_locks}

\* disconnect_from_broker
disconnect_from_broker_locks == <<EngineCall>>

\* request_subscribe / request_publish / request_unsubscribe
request_locks == <<Lock("work_mutex_"), Unlock("work_mutex_")>>

\* on_message_arrived, on_delivery_complete, on_connect_success:
\* update_last_activity(), then push.
on_activity_locks == update_last_activity_locks \o push_locks

\* on_connection_lost, on_connect_failure, on_subscribe_*, on_send_*: push.
on_event_locks == push_locks

\* The body of the detached thread.
detached_locks == <<EngineCall>>

\* The functions a thread calls, as their step sequences.
Functions(t) ==
    CASE t = "run" ->
           connect_to_broker_locks \cup process_requests_locks
               \cup check_connection_health_locks
               \cup {disconnect_from_broker_locks}
      [] t = "engine" -> {on_activity_locks, on_event_locks}
      [] t \in {"consumer1", "consumer2"} ->
           pop_locks \cup {try_pop_locks, request_locks}
      [] OTHER -> {}

\* What SpecLocks leaves alone.
lockFrame == <<client_, connected_, should_stop_, work_queue_,
               run_pc, item, sleep_detected, is_connected, link, pending,
               forced, object_, enq, cold, dispatched, finished, events,
               connect_calls, shutdown_count, stop_calls, use_after_destroy,
               queue_, waiters, eq_pc, timed_out, pushed, popped, nopush,
               setupVars, clockVars, b64, adminVars>>

InitLocks ==
    /\ InitSession
    /\ b64 = B64Idle
    /\ InitQueue
    /\ config_ = DefaultConfig
    /\ platform = "linux"
    /\ sys = [pem_certs |-> "", can_create |-> TRUE]
    /\ files = {"/etc/ssl/certs/ca-certificates.crt"}

\* Mutex m gets owner o.
SetOwner(m, o) ==
    /\ work_mutex_' = IF m = "work_mutex_" THEN o ELSE work_mutex_
    /\ mutex_' = IF m = "mutex_" THEN o ELSE mutex_
    /\ activity_mutex_' = IF m = "activity_mutex_" THEN o ELSE activity_mutex_

\* A thread that is between functions calls one.
CallFunction ==
    \E t \in LockThreads :
        /\ todo[t] = <<>>
        /\ \E f \in Functions(t) : todo' = [todo EXCEPT ![t] = f]
        /\ UNCHANGED <<work_mutex_, mutex_, activity_mutex_, lockFrame>>

\* std::mutex::lock: the thread proceeds when the mutex is free. The mutexes
\* are not recursive: a thread that owns m waits like any other.
LockStep ==
    \E t \in LockThreads :
        /\ todo[t] # <<>>
        /\ Head(todo[t]).op = "lock"
        /\ Owner(Head(todo[t]).m) = "free"
        /\ SetOwner(Head(todo[t]).m, t)
        /\ todo' = [todo EXCEPT ![t] = Tail(@)]
        /\ UNCHANGED lockFrame

\* std::mutex::unlock
UnlockStep ==
    \E t \in LockThreads :
        /\ todo[t] # <<>>
        /\ Head(todo[t]).op = "unlock"
        /\ SetOwner(Head(todo[t]).m, "free")
        /\ todo' = [todo EXCEPT ![t] = Tail(@)]
        /\ UNCHANGED lockFrame

\* A call of the engine: it takes none of the three mutexes.
EngineCallUnderLocks ==
    \E t \in LockThreads :
        /\ todo[t] # <<>>
        /\ Head(todo[t]).op = "engine"
        /\ todo' = [todo EXCEPT ![t] = Tail(@)]
        /\ UNCHANGED <<work_mutex_, mutex_, activity_mutex_, lockFrame>>

\* std::thread(...).detach(): the detached thread starts its body (one such
\* thread at a time is followed).
DetachStep ==
    \E t \in LockThreads :
        /\ todo[t] # <<>>
        /\ Head(todo[t]).op = "detach"
        /\ todo["detached"] = <<>>
        /\ todo' = [todo EXCEPT ![t] = Tail(@), !["detached"] = detached_locks]
        /\ UNCHANGED <<work_mutex_, mutex_, activity_mutex_, lockFrame>>

NextLocks ==
    \/ CallFunction
    \/ LockStep
    \/ UnlockStep
    \/ EngineCallUnderLocks
    \/ DetachStep

SpecLocks == InitLocks /\ [][NextLocks]_vars

\* ------------------------------------------------------------ properties

\* A step in which process_requests removes the head of the work queue.
PopStep == Len(work_queue_') < Len(work_queue_)

\* A step in which process_requests hands `item` to the engine.
DispatchStep == Len(dispatched') > Len(dispatched)

\* Terminal (success or failure) events pushed so far for request id.
Terminal(id) ==
    LET S == {e \in BagToSet(events) : e.req = id}
    IN  BagCardinality([e \in S |-> events[e]])

\* C1 (as stated): every engine dispatch of a work item happens at a moment
\* when the connected flag is true.
C1_DispatchOnlyWhileConnected == [][DispatchStep => connected_]_vars

\* C1 (amended): process_requests removes a work item only in a step in which
\* it reads the connected flag as true, and an item enqueued while the flag was
\* false is not handed to the engine before the flag has been set to true.
C1_DispatchAfterConnectedCheck ==
    [][(PopStep => connected_) /\ (DispatchStep => item.id \notin cold)]_vars

\* C1 witness: an item enqueued while disconnected has been removed from the
\* queue and is at its engine call.
C1_Witness == run_pc = "pr_call" /\ ~item.enq_conn /\ Epoch >= 1

\* C2: work items are dispatched in the order in which they were enqueued:
\* the k-th dispatch is of the k-th enqueued item.
C2_DispatchInSubmissionOrder ==
    \A k \in 1..Len(dispatched) : dispatched[k].id = k

\* C2 witness: items of different kinds were dispatched after a reconnect.
C2_Witness ==
    /\ Len(dispatched) >= 2
    /\ dispatched[1].type # dispatched[2].type
    /\ Epoch >= 2

\* C3 (as stated): every request the engine is done with, of any kind, has
\* exactly one terminal event.
C3_OneTerminalEventPerRequest ==
    \A id \in finished : Terminal(id) = 1

\* C3 (amended): a subscribe or publish request has no terminal event while
\* the engine holds it and exactly one once the engine is done with it
\* (rejected synchronously or completed); an unsubscribe request never has one.
C3_OneTerminalEventPerSubPub ==
    \A k \in 1..Len(dispatched) :
        LET id == dispatched[k].id
        IN  Terminal(id) =
                IF id \in finished /\ dispatched[k].type # "UNSUBSCRIBE"
                THEN 1 ELSE 0

\* C3 witness: a rejected and a completed request, each with its event.
C3_Witness ==
    \E a, b \in finished :
        /\ a # b
        /\ MQTTEvent("SUBSCRIBE_FAILURE", a) \in BagToSet(events)
        /\ MQTTEvent("PUBLISH_SUCCESS", b) \in BagToSet(events)

\* A step in which the engine rejects the dispatched item synchronously.
RejectStep == DispatchStep /\ item.id \in finished'

\* process_requests goes on with its loop: back at the loop test, the lock
\* held, the rest of the queue untouched.
ContinuesDrain ==
    run_pc' = "pr_check" /\ work_mutex_' = "run" /\ work_queue_' = work_queue_

\* C11 (as stated): when the engine rejects a dispatch synchronously, of
\* whatever kind, exactly one *_FAILURE event naming the item's topic is
\* pushed and process_requests continues with the next item.
C11_SyncRejectAlwaysReported ==
    [][RejectStep =>
         /\ \E t \in {"SUBSCRIBE_FAILURE", "PUBLISH_FAILURE", "UNSUBSCRIBE_FAILURE"} :
                events' = events (+) SetToBag({[type |-> t, req |-> item.id,
                                                message |-> item.topic]})
         /\ ContinuesDrain]_vars

\* C11 (amended): a synchronously rejected subscribe (publish) pushes exactly
\* one SUBSCRIBE_FAILURE (PUBLISH_FAILURE) event whose message names the
\* item's topic; a rejected unsubscribe pushes nothing; in every case
\* process_requests continues with the next item.
C11_SyncRejectReportedForSubPub ==
    [][RejectStep =>
         /\ IF item.type \in {"SUBSCRIBE", "PUBLISH"}
            THEN events' = events (+) SetToBag({
                     [type |-> IF item.type = "SUBSCRIBE"
                               THEN "SUBSCRIBE_FAILURE" ELSE "PUBLISH_FAILURE",
                      req |-> item.id, message |-> item.topic]})
            ELSE events' = events
         /\ ContinuesDrain]_vars

\* C11 witness: the first item, a publish, was rejected synchronously and its
\* event names its topic; the next item was dispatched after it.
C11_Witness ==
    /\ [type |-> "PUBLISH_FAILURE", req |-> 1, message |-> 1] \in BagToSet(events)
    /\ Len(dispatched) = 2

\* An event of one of the types in T is pushed in this step.
PushesOneOf(T) == \E t \in T : CountEv(t)' > CountEv(t)

\* C13 (as stated): every change of the connected flag from false to true
\* comes with a Connected event, and every change from true to false with a
\* ConnectionLost or Error event.
C13_FlagChangesMirrored ==
    [][/\ (~connected_ /\ connected_') => PushesOneOf({"CONNECTED"})
       /\ (connected_ /\ ~connected_') => PushesOneOf({"CONNECTION_LOST", "ERROR"})]_vars

\* C13: the failing case: the health check's sleep path has cleared the flag
\* of a connected session and no ConnectionLost or Error event exists.
C13_Witness ==
    /\ forced > 0
    /\ ~connected_
    /\ link = "up"
    /\ CountEv("CONNECTION_LOST") = 0
    /\ CountEv("ERROR") = 0

\* C7: however often stop() is called, the shutdown sequence runs at most
\* once, and exactly once by the time run() has returned from its loop.
C7_ShutdownExactlyOnce ==
    /\ shutdown_count <= 1
    /\ run_pc = "done" => (shutdown_count = 1 /\ client_ = NULL)

\* C7 witness: run() returned after stop() was called several times and the
\* destructor ran.
C7_Witness ==
    /\ run_pc = "done"
    /\ stop_calls > MaxStopCalls
    /\ object_ = "destructed"
    /\ shutdown_count = 1

\* C9: MQTTAsync_connect is called at most once, and exactly once when setup
\* succeeded.
C9_ConnectCalledOnce ==
    /\ connect_calls <= 1
    /\ run_pc \notin {"start", "failed"} => connect_calls = 1

\* C9 witness: a connect failure, a lost connection, a reconnect and the
\* forced disconnect have all happened.
C9_Witness ==
    /\ connect_calls = 1
    /\ CountEv("ERROR") = 1
    /\ CountEv("CONNECTION_LOST") >= 1
    /\ Epoch = 2
    /\ link = "closed"

\* s is a prefix of t.
IsPrefixOf(s, t) == Len(s) <= Len(t) /\ \A i \in 1..Len(s) : s[i] = t[i]

\* The positions of run() inside its loop.
LoopPcs == {"loop", "pr_lock", "pr_check", "pr_call", "health", "hc_flag",
            "hc_query", "hc_act"}

\* run() has returned from its loop with the shutdown sequence done.
Stopped ==
    /\ run_pc = "done"
    /\ shutdown_count = 1
    /\ client_ = NULL
    /\ link = "destroyed"
    /\ ~connected_

\* C8: once stop() has been called while run() is in its loop, run()
\* eventually returns, having disconnected and destroyed the handle, with the
\* connected flag false.
C8_StopTerminatesRun == (should_stop_ /\ run_pc \in LoopPcs) ~> Stopped

\* C8 witness: run() has returned after a stop requested while connected, with
\* work still queued.
C8_Witness ==
    /\ Stopped
    /\ Epoch >= 1
    /\ work_queue_ # <<>>
    /\ Len(dispatched) >= 1

\* Work item id is in the work queue.
Queued(id) == \E k \in 1..Len(work_queue_) : work_queue_[k].id = id

\* Work item id was handed to the engine.
Dispatched(id) == \E k \in 1..Len(dispatched) : dispatched[k].id = id

\* The session is connected, its loop is running and no stop was requested.
Draining == connected_ /\ run_pc \in LoopPcs /\ ~should_stop_

\* C10: a step taken while the connected flag is false removes nothing from
\* the work queue and reorders nothing (the old queue is a prefix of the new
\* one); and a queued item is eventually dispatched unless the flag drops,
\* the loop ends or a stop is requested.
C10_QueuedItemsRetainedAndDrained ==
    /\ [][~connected_ => IsPrefixOf(work_queue_, work_queue_')]_vars
    /\ \A id \in 1..MaxReq : Queued(id) ~> (Dispatched(id) \/ ~Draining)

\* C10 witness: items enqueued before the first connect were all dispatched.
C10_Witness ==
    /\ Len(dispatched) = MaxReq
    /\ Epoch = 1
    /\ CountEv("ERROR") = 1
    /\ work_queue_ = <<>>

\* ------------------------------------------------------------ properties of SpecEQ

\* The sequence numbers of producer p's events in q, in q's order.
SeqsOf(q, p) ==
    LET f == SelectSeq(q, LAMBDA e : e.prod = p)
    IN  [i \in 1..Len(f) |-> f[i].seq]

\* Consumer c returns nullopt / an event in this step.
ReturnsNothing(c) ==
    /\ eq_pc[c] \in {"pop_pred", "try_pop_cs"}
    /\ eq_pc'[c] = "idle"
    /\ popped' = popped

ReturnsEvent(c) ==
    /\ eq_pc[c] \in {"pop_pred", "try_pop_cs"}
    /\ eq_pc'[c] = "idle"
    /\ popped' # popped

\* C4: the events one thread pushed are returned by pop and try_pop in the
\* order it pushed them, none skipped and none repeated: those returned so
\* far are its first, second, ... k-th.
C4_SingleProducerFifo ==
    \A p \in Producers :
        \A i \in 1..Len(SeqsOf(popped, p)) : SeqsOf(popped, p)[i] = i

\* C4 witness: all events of one producer were returned while another
\* producer was pushing as well.
C4_Witness ==
    /\ Len(SeqsOf(popped, "p1")) = MaxPush
    /\ Len(SeqsOf(popped, "p2")) >= 1

\* C5: the events are returned in the one order in which their pushes held
\* the queue lock: what was returned so far is a prefix of that order.
C5_TotalPushOrder == IsPrefixOf(popped, pushed)

\* C5 witness: the pushes of two producers interleaved and were all returned.
C5_Witness ==
    /\ Len(popped) = 2 * MaxPush
    /\ popped[1].prod # popped[2].prod
    /\ popped[2].prod # popped[3].prod

\* C6: pop and try_pop return nullopt only when the queue is empty at that
\* moment, and then leave it unchanged; when they return an event it is the
\* head, which they remove; pop starts to wait only on an empty queue, and a
\* consumer that waits does not hold the lock, so a push never waits for a
\* consumer.
C6_PopReturnsHeadOrEmpty ==
    [][\A c \in Consumers :
         /\ ReturnsNothing(c) => (queue_ = <<>> /\ queue_' = queue_)
         /\ ReturnsEvent(c) => /\ queue_ # <<>>
                               /\ popped' = Append(popped, Head(queue_))
                               /\ queue_' = Tail(queue_)
         /\ (eq_pc[c] # "pop_wait" /\ eq_pc'[c] = "pop_wait") => queue_ = <<>>
         /\ eq_pc'[c] = "pop_wait" => mutex_' # c]_vars

\* C6 witness: a consumer's wait timed out, an event was pushed before it got
\* the lock back, and it is at its last look at the predicate.
C6_Witness ==
    \E c \in Consumers :
        /\ eq_pc[c] = "pop_pred"
        /\ timed_out[c]
        /\ queue_ # <<>>

\* ------------------------------------------------------------ properties of SpecSetup

\* C12 (as stated): when run() has returned without entering its loop, exactly
\* one Error event has been pushed.
C12_SetupFailureReported == run_pc = "failed" => CountEv("ERROR") = 1

\* C12: the failing case: TLS is on, setup_ssl_cert threw, run() has returned
\* and the event queue received nothing.
C12_Witness ==
    /\ run_pc = "failed"
    /\ config_.use_ssl
    /\ probes # <<>>
    /\ resolved = NULL
    /\ events = EmptyBag

\* TLS is on and no trust bundle can be had: the configured certificate file,
\* if any, does not exist, none of the platform's bundle paths exists, and
\* extraction yields nothing or the temporary file cannot be created.
NoTrustBundle ==
    /\ config_.use_ssl
    /\ config_.cert_file_path = NULL \/ config_.cert_file_path \notin files
    /\ \A i \in 1..Len(BundlePaths(platform)) : BundlePaths(platform)[i] \notin files
    /\ \/ platform \notin {"windows", "apple"}
       \/ sys.pem_certs = ""
       \/ ~sys.can_create

\* C15: when TLS is on and no trust bundle can be resolved, MQTTAsync_connect
\* is never called and run() never enters its loop: it is still in setup, or
\* it has returned; once the resolver has run it has returned.
C15_NoTlsConnectWithoutBundle ==
    NoTrustBundle =>
        /\ connect_calls = 0
        /\ trust_store = NULL
        /\ run_pc \in {"start", "ctb_callbacks", "ctb_ssl", "failed"}
        /\ probes # <<>> => run_pc = "failed"

\* C15 witness: on macOS, without any certificate file, extraction yielded
\* certificates but the temporary file could not be created; run() returned.
C15_Witness ==
    /\ NoTrustBundle
    /\ platform = "apple"
    /\ sys.pem_certs = "PEM"
    /\ Extraction \in Range(probes)
    /\ run_pc = "failed"

\* The file sources in priority order: the configured certificate file, if
\* any, then the platform's bundle paths.
FileSources ==
    (IF config_.cert_file_path # NULL THEN <<config_.cert_file_path>> ELSE <<>>)
        \o BundlePaths(platform)

\* C16: once the resolver has run: if any file source exists, the first one
\* in priority order is what it returned, and it examined exactly the sources
\* up to that one: no later path, and not the extraction; if none exists it
\* examined them all, in order, and then attempted the extraction.
C16_CertSourcesInPriorityOrder ==
    probes # <<>> =>
        LET ex == {i \in 1..Len(FileSources) : FileSources[i] \in files}
        IN  IF ex # {}
            THEN LET m == CHOOSE i \in ex : \A j \in ex : i <= j
                 IN  /\ resolved = FileSources[m]
                     /\ probes = SubSeq(FileSources, 1, m)
            ELSE /\ probes = FileSources \o <<Extraction>>
                 /\ resolved \in {NULL, TempCertPath}

\* C16 witness: the configured file is missing, the first Linux bundle path
\* too; the second exists and was returned although the last exists as well.
C16_Witness ==
    /\ platform = "linux"
    /\ config_.cert_file_path = UserCertPath
    /\ resolved = "/etc/pki/tls/certs/ca-bundle.crt"
    /\ "/etc/ssl/cert.pem" \in files
    /\ Len(probes) = 3

\* C17 (as stated): when run() has returned, by whatever path, the temporary
\* certificate file does not exist; and a certificate file the resolver
\* returned that is not the temporary one is never deleted.
C17_TempFileNeverOutlivesSession ==
    /\ run_pc \in {"failed", "done"} => TempCertPath \notin files
    /\ resolved \notin {NULL, TempCertPath} => resolved \in files

\* C17: the failing case: the temporary file was written, MQTTAsync_connect
\* was rejected, run() returned and the object was destroyed; the file is
\* still there.
C17_Witness ==
    /\ run_pc = "failed"
    /\ object_ = "destructed"
    /\ connect_calls = 1
    /\ temp_cert_file_ = TempCertPath
    /\ TempCertPath \in files

\* C18: the protocol string and default port are wss/8883, ws/8080, ssl/8883,
\* tcp/1883 for (WebSocket, TLS), (WebSocket, plain), (TCP, TLS), (TCP, plain);
\* the URI given to the engine is <proto>://<host>:<port>, followed by the
\* WebSocket path exactly when the transport is WebSocket; for WebSocket with
\* TLS, port 8883 and path /mqtt it is wss://broker.example:8883/mqtt.
C18_ProtocolPortAndUri ==
    LET ws == config_.use_websockets
        ssl == config_.use_ssl
        proto == CASE ws /\ ssl -> <<"w", "s", "s">>
                   [] ws /\ ~ssl -> <<"w", "s">>
                   [] ~ws /\ ssl -> <<"s", "s", "l">>
                   [] ~ws /\ ~ssl -> <<"t", "c", "p">>
        dflt == CASE ws /\ ssl -> 8883
                  [] ws /\ ~ssl -> 8080
                  [] ~ws /\ ssl -> 8883
                  [] ~ws /\ ~ssl -> 1883
        port == CASE config_.broker_port = 8883 -> <<"8", "8", "8", "3">>
                  [] config_.broker_port = 8080 -> <<"8", "0", "8", "0">>
                  [] config_.broker_port = 1883 -> <<"1", "8", "8", "3">>
                  [] config_.broker_port = 1234 -> <<"1", "2", "3", "4">>
    IN  /\ get_protocol_string(config_) = proto
        /\ get_default_port(config_) = dflt
        /\ server_uri # <<>> =>
              server_uri = proto \o <<":", "/", "/">> \o <<"b", "r", "o", "k", "e", "r", ".", "e", "x", "a", "m", "p", "l", "e">> \o <<":">> \o port
                               \o (IF ws THEN config_.websocket_path ELSE <<>>)
        /\ (server_uri # <<>> /\ ws /\ ssl /\ config_.broker_port = 8883
                /\ config_.websocket_path = <<"/", "m", "q", "t", "t">>) =>
              server_uri = <<"w", "s", "s", ":", "/", "/", "b", "r", "o", "k", "e", "r", ".", "e", "x", "a", "m", "p", "l", "e", ":", "8", "8", "8", "3", "/", "m", "q", "t", "t">>

\* C18 witness: a session over plain TCP on its default port has handed its
\* URI, which has no path, to the engine.
C18_Witness ==
    /\ ~config_.use_websockets
    /\ ~config_.use_ssl
    /\ server_uri = <<"t", "c", "p", ":", "/", "/", "b", "r", "o", "k", "e", "r", ".", "e", "x", "a", "m", "p", "l", "e", ":", "1", "8", "8", "3">>
    /\ client_ = "valid"

\* ------------------------------------------------------------ properties of SpecHealth

\* The step in which check_connection_health, past its liveness query, acts
\* and returns.
HealthActStep == run_pc = "hc_act" /\ run_pc' # "hc_act"

RECURSIVE Rfc4648(_)
Rfc4648(d) ==
    CASE Len(d) = 0 -> <<>>
      [] Len(d) = 1 ->
           LET n == d[1] * 16
           IN  <<base64_chars[(n \div 64) + 1], base64_chars[(n % 64) + 1], "=", "=">>
      [] Len(d) = 2 ->
           LET n == (d[1] * 256 + d[2]) * 4
           IN  <<base64_chars[(n \div 4096) + 1], base64_chars[((n \div 64) % 64) + 1],
                 base64_chars[(n % 64) + 1], "=">>
      [] OTHER ->
           LET n == d[1] * 65536 + d[2] * 256 + d[3]
           IN  <<base64_chars[(n \div 262144) + 1],
                 base64_chars[((n \div 4096) % 64) + 1],
                 base64_chars[((n \div 64) % 64) + 1],
                 base64_chars[(n % 64) + 1]>> \o Rfc4648(SubSeq(d, 4, Len(d)))

\* C19: what base64_encode returns is the RFC 4648 encoding of its input:
\* 4 * ceil(n / 3) characters, with two "=" after one trailing byte and one
\* after two, and none otherwise; {0x00, 0x01, 0x02} gives AAEC.
C19_Base64MatchesRfc4648 ==
    b64.pc = "done" =>
        LET n == Len(b64.input)
            r == b64.ret
            pads == Cardinality({k \in 1..Len(r) : r[k] = "="})
        IN  /\ r = Rfc4648(b64.input)
            /\ Len(r) = 4 * ((n + 2) \div 3)
            /\ pads = CASE n % 3 = 1 -> 2 [] n % 3 = 2 -> 1 [] OTHER -> 0
            /\ b64.input = <<0, 1, 2>> => r = <<"A", "A", "E", "C">>

\* C19 witness: a full group and one trailing byte were encoded, starting
\* from a char_array_3 with all bits set.
C19_Witness ==
    /\ b64.pc = "done"
    /\ b64.input = <<0, 1, 2, 255>>
    /\ b64.ret = <<"A", "A", "E", "C", "/", "w", "=", "=">>
    /\ b64.char_array_3 = <<255, 0, 0>>

\* ------------------------------------------------------------ the stale-predicate path

\* The step in which check_connection_health tests the flag on entry.
HealthFlagStep == run_pc = "hc_flag" /\ run_pc' # "hc_flag"

\* C20: when the health check, entered with the flag true, finds that the
\* engine reports not-connected, it sets the flag false, pushes exactly one
\* ConnectionLost event with the detail "Stale connection detected" and makes
\* no connect or disconnect call; when the flag is false on entry it returns
\* at once: no query, no event, the flag unchanged.
C20_StalePredicatePath ==
    [][/\ (HealthActStep /\ ~is_connected) =>
            /\ ~connected_'
            /\ events' = events (+) SetToBag({
                   [type |-> "CONNECTION_LOST", req |-> 0,
                    message |-> "Stale connection detected"]})
            /\ connect_calls' = connect_calls
            /\ forced' = forced
            /\ <<link, client_, shutdown_count>>' = <<link, client_, shutdown_count>>
       /\ (HealthFlagStep /\ ~connected_) =>
            /\ run_pc' = "loop"
            /\ events' = events
            /\ connected_' = connected_
            /\ <<is_connected, link, forced, connect_calls>>'
                   = <<is_connected, link, forced, connect_calls>>]_vars

\* C20 witness: after a reconnect the detached thread disconnected the engine
\* under a session whose flag was true, and the health check reported it.
C20_Witness ==
    /\ [type |-> "CONNECTION_LOST", req |-> 0,
         message |-> "Stale connection detected"] \in BagToSet(events)
    /\ link = "closed"
    /\ ~connected_
    /\ Epoch = 2
    /\ CountEv("CONNECTION_LOST") = 2

\* ------------------------------------------------------------ the sleep threshold

\* The step in which run() finds a health check due and
\* check_connection_health calls detect_sleep_resume.
HealthDetectStep == run_pc = "health" /\ run_pc' = "hc_flag"

C22_RefreshOnlyOnCleanPass ==
    [][/\ (HealthFlagStep /\ ~connected_) => last_activity_' = last_activity_
       /\ (HealthActStep /\ ~is_connected) => last_activity_' = last_activity_
       /\ (HealthActStep /\ is_connected) =>
            IF sleep_detected
               /\ (now - last_activity_) \div TicksPerSec
                      > 2 * config_.keep_alive_seconds
            THEN last_activity_' = last_activity_
            ELSE last_activity_' = now]_vars

\* C22 witness: the only connection of the session saw no message, and the
\* pass that started the disconnect thread has stored the clock in
\* last_activity_.
C22_Witness ==
    /\ forced = 1
    /\ ~connected_
    /\ Epoch = 1
    /\ CountEv("MESSAGE_ARRIVED") = 0
    /\ last_activity_ = now

\* ------------------------------------------------------------ idle sessions

\* A step of check_connection_health past detect_sleep_resume.
HealthCheckStep == run_pc \in {"hc_flag", "hc_query", "hc_act"} /\ run_pc' # run_pc

\* C23: an invocation whose gap to the previous one, in whole seconds, is not
\* above three times the expected interval flags no sleep; and a health check
\* that flagged no sleep and was told by the engine that it is connected does
\* not change the flag, pushes no event and starts no disconnect thread,
\* whatever the age of last_activity_.
C23_NoActionWhileIdle ==
    [][/\ (HealthDetectStep
           /\ (now - last_check_time_) \div TicksPerSec
                  <= 3 * ((config_.connection_check_interval_ms \div 1000) + 1))
            => ~sleep_detected'
       /\ (HealthCheckStep /\ ~sleep_detected
           /\ (run_pc = "hc_act" => is_connected))
            => /\ connected_' = connected_
               /\ events' = events
               /\ forced' = forced]_vars

\* C23 witness: a health check at the regular cadence is about to act on a
\* connected session whose last activity is older than twice the keep-alive
\* interval.
C23_Witness ==
    /\ run_pc = "hc_act"
    /\ is_connected
    /\ connected_
    /\ ~sleep_detected
    /\ (now - last_activity_) \div TicksPerSec > 2 * config_.keep_alive_seconds
    /\ CountEv("CONNECTION_LOST") = 0
    /\ forced = 0

\* ------------------------------------------------------------ the threads and the engine

\* A step that makes a call of the engine on client_: MQTTAsync_connect,
\* MQTTAsync_subscribe / MQTTAsync_sendMessage / MQTTAsync_unsubscribe,
\* MQTTAsync_isConnected, MQTTAsync_disconnect with MQTTAsync_destroy, or the
\* MQTTAsync_disconnect of the detached thread.
EngineCallStep ==
    \/ connect_calls' # connect_calls
    \/ Len(dispatched') > Len(dispatched)
    \/ run_pc = "hc_query" /\ run_pc' = "hc_act"
    \/ shutdown_count' # shutdown_count
    \/ forced' < forced

\* A step of run(): every one of them moves the thread's position.
RunThreadStep == run_pc' # run_pc

\* C24: every call of the engine on the handle is made by the run thread.
C24_EngineCallsOnRunThread == [][EngineCallStep => RunThreadStep]_vars

\* C24 witness: while run() is in its loop the detached thread has called
\* MQTTAsync_disconnect on the live handle.
C24_Witness ==
    /\ link = "closed"
    /\ forced = 0
    /\ client_ = "valid"
    /\ run_pc = "pr_call"

\* C25: no call of the engine is made while work_mutex_ is held, so that a
\* request_* call never waits for one.
C25_NoEngineCallUnderWorkMutex ==
    [][EngineCallStep => work_mutex_ = "free" /\ work_mutex_' = "free"]_vars

\* C25 witness: process_requests holds work_mutex_ and is about to call the
\* engine for the item it took, while a further request could be made.
C25_Witness ==
    /\ run_pc = "pr_call"
    /\ work_mutex_ = "run"
    /\ item.type = "PUBLISH"
    /\ enq < MaxReq
    /\ ~ENABLED request_publish

\* ------------------------------------------------------------ the health check and the callbacks

\* C26: a health check whose liveness query was answered before the engine's
\* connection came up again does not overwrite the flag that
\* on_connect_success has set since: when it acts while the connection is up,
\* the flag is true afterwards.
C26_StaleCheckKeepsNewerConnected ==
    [][(HealthActStep /\ ~is_connected /\ link = "up") => connected_']_vars

\* C26 witness: the engine's connection is up, no callback and no health
\* check is under way, no disconnect thread is pending, and the flag is false.
C26_Witness ==
    /\ link = "up"
    /\ ~connected_
    /\ forced = 0
    /\ run_pc = "loop"
    /\ StaleConnectionEvent \in BagToSet(events)

\* The times the engine's connection, once up, has ended: every connection
\* that came up has ended, except the one that is up now.
Losses == IF link = "up" THEN Epoch - 1 ELSE Epoch

\* C27: no more ConnectionLost events have been pushed than connections have
\* been lost.
C27_OneConnectionLostPerLoss == CountEv("CONNECTION_LOST") <= Losses

\* C27 witness: the only connection of the session was lost once, and both
\* on_connection_lost and the health check have pushed ConnectionLost.
C27_Witness ==
    /\ Epoch = 1
    /\ link = "lost"
    /\ CountEv("CONNECTION_LOST") = 2
    /\ MQTTEvent("CONNECTION_LOST", 0) \in BagToSet(events)
    /\ StaleConnectionEvent \in BagToSet(events)

\* ------------------------------------------------------------ the handle's lifetime

\* C28: no call of the engine is made on the handle after
\* disconnect_from_broker has destroyed it: the detached thread does not call
\* MQTTAsync_disconnect after run() has released the handle or after the
\* session object is gone.
C28_NoEngineCallAfterDestroy == ~use_after_destroy

\* C28 witness: the detached thread made its call after the handle was
\* destroyed and the session object destructed.
C28_Witness ==
    /\ use_after_destroy
    /\ forced = 0
    /\ link = "destroyed"
    /\ client_ = NULL
    /\ object_ = "destructed"

\* ------------------------------------------------------------ work items

\* The ids of the work items where they are now: handed to the engine, taken
\* by process_requests for its next engine call, or in the work queue.
ItemTrail ==
    [k \in 1..Len(dispatched) |-> dispatched[k].id]
        \o (IF item # NoItem THEN <<item.id>> ELSE <<>>)
        \o [k \in 1..Len(work_queue_) |-> work_queue_[k].id]

\* C29: every work item enqueued so far is in exactly one place: handed to the
\* engine, taken by process_requests, or in the work queue; an item leaves
\* the queue only when process_requests takes the head; a taken item is at
\* its engine call, and the run thread goes on from there only by making that
\* call for that item.
C29_WorkItemConservation ==
    /\ [](ItemTrail = [k \in 1..enq |-> k])
    /\ [](item # NoItem => run_pc = "pr_call")
    /\ [][PopStep => /\ run_pc = "pr_check" /\ run_pc' = "pr_call"
                     /\ item' = Head(work_queue_)
                     /\ work_queue_' = Tail(work_queue_)]_vars
    /\ [][(run_pc = "pr_call" /\ RunThreadStep) =>
            dispatched' = Append(dispatched, [id |-> item.id,
                                              type |-> item.type])]_vars

\* C29 witness: of two items enqueued, the first was handed to the engine and
\* the second is taken and at its engine call.
C29_Witness ==
    /\ enq = 2
    /\ Len(dispatched) = 1
    /\ run_pc = "pr_call"
    /\ item.id = 2
    /\ work_queue_ = <<>>

\* ------------------------------------------------------------ properties of SpecLocks

\* The mutexes thread t owns.
Owned(t) == {m \in Mutexes : Owner(m) = t}

\* The mutex thread t is about to lock (NULL: none).
Wants(t) ==
    IF todo[t] # <<>> /\ Head(todo[t]).op = "lock" THEN Head(todo[t]).m ELSE NULL

\* Thread t waits for a mutex that has an owner.
Blocked(t) == Wants(t) # NULL /\ Owner(Wants(t)) # "free"

\* Every thread of D waits for a mutex owned by a thread of D.
Deadlocked(D) == D # {} /\ \A t \in D : Blocked(t) /\ Owner(Wants(t)) \in D

\* C30: in no reachable state is there a set of threads each of which waits
\* for a mutex owned by a thread of the set; no thread locks activity_mutex_
\* while it owns it; and a thread that locks a mutex while it owns another
\* owns work_mutex_ alone and locks the event queue's mutex_.
C30_DeadlockFreedom ==
    /\ [](\A D \in SUBSET LockThreads : ~Deadlocked(D))
    /\ [](\A t \in LockThreads :
            ~(Wants(t) = "activity_mutex_" /\ activity_mutex_ = t))
    /\ [][\A t \in LockThreads, m \in Mutexes :
            (Wants(t) = m /\ Owner(m)' = t /\ Owned(t) # {}) =>
                Owned(t) = {"work_mutex_"} /\ m = "mutex_"]_vars

\* C30 witness: run() is inside process_requests with work_mutex_ and wants
\* the event queue's mutex_, which a callback owns; a consumer waits in
\* request_* for work_mutex_, and the detached thread is at its engine call.
C30_Witness ==
    /\ work_mutex_ = "run"
    /\ Wants("run") = "mutex_"
    /\ mutex_ = "engine"
    /\ Wants("consumer1") = "work_mutex_"
    /\ Wants("consumer2") = "mutex_"
    /\ todo["detached"] # <<>>

\* ------------------------------------------------------------ properties of SpecEQAdmin

\* No element occurs twice in q.
NoRepeat(q) == \A i, j \in 1..Len(q) : q[i] = q[j] => i = j

\* The position of event e in the order of the pushes (0: never pushed).
PushIndex(e) ==
    IF \E k \in 1..Len(pushed) : pushed[k] = e
    THEN CHOOSE k \in 1..Len(pushed) : pushed[k] = e
    ELSE 0

\* Consumer c returns from size() / from clear() in this step.
SizeReturns(c) == eq_pc[c] = "size_cs" /\ eq_pc'[c] = "idle"
ClearReturns(c) == eq_pc[c] = "clear_cs" /\ eq_pc'[c] = "idle"

\* C31: no event is returned twice, nor returned and discarded; every event
\* returned or discarded was pushed; the queue holds the pushed events that
\* were neither returned nor discarded, which are the newest, in push order;
\* size() returns the number of pushes minus the events returned minus the
\* events clear() discarded; clear() leaves the queue empty; and a push,
\* after a clear() as before it, appends its event to the queue.
C31_EventConservation ==
    /\ [](/\ NoRepeat(popped \o cleared)
          /\ Range(popped) \cup Range(cleared) \subseteq Range(pushed)
          /\ Len(queue_) + Len(popped) + Len(cleared) = Len(pushed)
          /\ \A k \in 1..Len(queue_) :
                queue_[k] = pushed[Len(popped) + Len(cleared) + k])
    /\ [][\A c \in Consumers :
            /\ SizeReturns(c) =>
                 /\ ret'[c].fn = "size"
                 /\ ret'[c].val + Len(popped) + Len(cleared) = Len(pushed)
            /\ ClearReturns(c) =>
                 /\ queue_' = <<>>
                 /\ cleared' = cleared \o queue_
                 /\ <<pushed, popped>>' = <<pushed, popped>>]_vars
    /\ [][pushed' # pushed =>
            /\ Len(pushed') = Len(pushed) + 1
            /\ queue_' = Append(queue_, pushed'[Len(pushed')])]_vars

\* C31 witness: clear() discarded two events, an event pushed later was
\* returned by pop or try_pop, and a size() call has found one event of the
\* four pushed in the queue.
C31_Witness ==
    /\ Len(cleared) = 2
    /\ \E k \in 1..Len(popped) : PushIndex(popped[k]) > PushIndex(cleared[2])
    /\ \E c \in Consumers : ret[c].fn = "size" /\ ret[c].val = 1
    /\ Len(pushed) = 4
    /\ Len(queue_) = 1
====
